---- MODULE Spec2Model ----
(***************************************************************************)
(* Agent lifecycle and clone orchestration of kagebunshin.                 *)
(*                                                                         *)
(* The model follows the asyncio execution of the code: one action is the  *)
(* code a coroutine runs between two suspension points (awaits).  Agent 0  *)
(* is the agent the facade Agent.run creates; agent t > 0 is the clone     *)
(* that subtask t of a delegate call creates.                              *)
(***************************************************************************)
EXTENDS Integers, Sequences, FiniteSets, TLC

\* ------------------------------------------------------------------ bounds
NumSlots == 3            \* subtasks (hence clones) that can exist at one time
SmallCap == 2            \* a configured KAGE_MAX_..._INSTANCES below the default
NumHandles == 3          \* agents a direct client of create/dispose holds
MaxDisposeCalls == 2     \* dispose calls a direct client makes per agent
NumPages == 3            \* pages a browser context opens in all
MaxVer == 1              \* changes of url or content one page goes through
MaxBoxes == 2            \* elements an annotation of a page lists
MaxToolCalls == 3        \* tool calls made on one state manager
NumPetNames == 2         \* names petname.generate can draw
NumHex == 2              \* values secrets.token_hex can draw
MaxBlindSteps == 3       \* messages the ReAct agent of a BlindAgent adds in a run
\* invocations of one agent that follow each other
MaxInvocations == 2
MaxHistory == 2          \* messages of a history handed to the summarizer
MaxNameCalls == 4        \* calls of generate_agent_name in one process
NumPosters == 2          \* agents that use one room of the group chat
MaxChatTurns == 2        \* turns with a post_groupchat call one agent makes
MaxPosts == 2            \* posts one agent of a room makes
SmallRoomMax == 2        \* a configured KAGE_GROUPCHAT_MAX_MESSAGES below the default

\* ------------------------------------------------------- program constants
DEFAULT_MAX_INSTANCES == 5
MAX_CLONE_DEPTH == 3

Root == 0
Slots == 1..NumSlots
Agents == 0..NumSlots
Handles == 1..NumHandles
None == -1
TaskNames == {"a", "b"}

VARIABLES
    maxInstances,   \* MAX_KAGEBUNSHIN_INSTANCES as read from the environment
    count,          \* KageBunshinAgent._INSTANCE_COUNT
    pc,             \* pc[0]: position of Agent.run; pc[t]: position of run_single_task
    persistent,     \* Agent.run launched a persistent context (context.browser is None)
    browserOpen,    \* the browser / persistent context Agent.run launched is open
    openCtx,        \* browser contexts that are open
    created,        \* created[a]: create() returned agent a (`agent` / `clone` is not None)
    depth,          \* depth[a]: clone_depth of agent a
    actx,           \* actx[a]: the context agent a was created with
    tctx,           \* tctx[t]: created_context of subtask t
    tparent,        \* tparent[t]: the agent whose delegate call runs subtask t
    tpath,          \* tpath[t]: what happened to subtask t (which exit it took)
    ret,            \* ret[a]: what Agent.run / run_single_task returned
    dpc,            \* dpc[a]: position of agent a's delegate call
    dtasks,         \* dtasks[a]: the `tasks` argument of the call
    dslots,         \* dslots[a]: the coroutines handed to gather, in order
    dresult,        \* dresult[a]: what the call returned
    dbefore,        \* dbefore[a]: _INSTANCE_COUNT when the call was made
    runBefore,      \* _INSTANCE_COUNT when Agent.run was called
    disposeCalls,   \* disposeCalls[a]: times dispose() was called on agent a
    hpc,            \* hpc[h]: a direct client's create() call / agent h
    hdisp,          \* hdisp[h]: times the direct client called dispose() on h
    gpc,            \* the graph node WebVoyagerV2.agent runs next ("idle": no run)
    messages,       \* state["messages"] of the graph run
    steps,          \* super-steps the graph has executed in this run
    enableSummarization, \* WebVoyagerV2.enable_summarization
    entry,          \* the entry point of the run: "ainvoke" or "astream"
    llmStuck,       \* the LLM of this run answers every turn with the same tool call
    llmCalls,       \* llm_with_tools.ainvoke calls made in this run
    runStart,       \* len(persistent_messages) when the run began
    outcome,        \* how ainvoke / astream ended, and with what
    persistentMessages, \* WebVoyagerV2.persistent_messages
    currentState,   \* state_manager.current_state["messages"]
    invocations,    \* ainvoke / astream calls begun on the agent
    ctxPages,       \* context.pages: the open pages, oldest first
    pageVer,        \* pageVer[p]: (url, content) of page p, as a version number
    pagesMade,      \* pages the context has opened so far
    cur,            \* WebVoyagerStateManager.current_page_index
    bboxes,         \* WebVoyagerStateManager.current_bboxes (isCaptcha of each)
    actionCount,    \* WebVoyagerStateManager._action_count
    last,           \* the last tool call: what it was given, did and returned
    toolCalls,      \* tool calls made so far
    obsBoxes,       \* the elements of the latest Observation (none if it failed)
    tnCalls,        \* the tool calls ToolNode is running (AIMessage.tool_calls)
    tnPc,           \* tnPc[k]: the await the task of call k is at
    tnLocal,        \* tnLocal[k]: target_page / page_to_close and tab_index of call k
    tnOut,          \* tnOut[k]: what the task of call k returned
    roomMax,        \* GroupChatClient: the maximum number of messages of a room
    room,           \* the list of the room in the store, oldest message first
    storeUp,        \* the store can be reached
    cpc,            \* where the agent Runner is between ainvoke and its answer
    csub,           \* csub[p]: the store call the post of agent p makes next
    cposts,         \* cposts[p]: messages agent p appended
    cturns,         \* turns of Runner with a post_groupchat call
    cprompt,        \* length of the chat block of Runner's last prompt, if any
    ctool,          \* what post_groupchat returned to Runner last
    assignedNames,  \* utils._ASSIGNED_AGENT_NAMES
    returnedNames,  \* the names generate_agent_name returned, in order
    spc,            \* where a delegate call is around its summarizer call
    shist,          \* current_messages, the history the call summarizes
    sparent,        \* parent_name of the call
    stasks,         \* tasks of the call
    sres,           \* how _summarize_conversation_history ended, and with what
    sfailed,        \* the summarizer LLM could not be built or its call raised
    sllm,           \* summarizer.ainvoke calls made
    ssummary,       \* conversation_summary of the call
    sbriefs,        \* PARENT CONTEXT of the briefing each clone was run with
    bpc,            \* BlindAgent: "idle", "running" (the ReAct agent runs), "done"
    bentry,         \* BlindAgent: the entry point called, "ainvoke" or "astream"
    bmsgs,          \* BlindAgent: state["messages"] of the ReAct agent's run
    byield,         \* BlindAgent.astream: the chunks it yielded so far
    bret,           \* BlindAgent: how the entry point ended, and with what
    berr            \* BlindAgent: str(e) of the exception the workflow raised

vars == <<maxInstances, count, pc, persistent, browserOpen, openCtx, created,
          depth, actx, tctx, tparent, tpath, ret, dpc, dtasks, dslots,
          dresult, dbefore, runBefore, disposeCalls, hpc, hdisp,
          gpc, messages, steps, enableSummarization, entry, llmStuck,
          llmCalls, runStart, outcome, persistentMessages, currentState,
          invocations,
          ctxPages, pageVer, pagesMade, cur, bboxes, actionCount, last,
          toolCalls, obsBoxes, tnCalls, tnPc, tnLocal, tnOut,
          roomMax, room, storeUp, cpc, csub, cposts, cturns, cprompt, ctool,
          assignedNames, returnedNames,
          spc, shist, sparent, stasks, sres, sfailed, sllm, ssummary, sbriefs,
          bpc, bentry, bmsgs, byield, bret, berr>>

agentVars == <<pc, persistent, browserOpen, openCtx, created, depth, actx,
               tctx, tparent, tpath, ret, dpc, dtasks, dslots, dresult,
               dbefore, runBefore, disposeCalls>>
apiVars == <<hpc, hdisp>>
loopVars == <<gpc, messages, steps, enableSummarization, entry, llmStuck,
              llmCalls, runStart, outcome, persistentMessages,
              currentState, invocations>>
smVars == <<ctxPages, pageVer, pagesMade, cur, bboxes, actionCount, last,
            toolCalls, obsBoxes>>
tnVars == <<tnCalls, tnPc, tnLocal, tnOut>>
chatVars == <<roomMax, room, storeUp, cpc, csub, cposts, cturns, cprompt,
              ctool>>
nameVars == <<assignedNames, returnedNames>>
sumVars == <<spc, shist, sparent, stasks, sres, sfailed, sllm, ssummary,
            sbriefs>>
blindVars == <<bpc, bentry, bmsgs, byield, bret, berr>>
otherVars == <<nameVars, sumVars, blindVars>>
lifecycleVars == <<maxInstances, count, agentVars, apiVars>>

\* ------------------------------------------------------------ pure pieces

\* create(): `if cls._INSTANCE_COUNT >= MAX_..._INSTANCES`; the same test is
\* the best-effort capacity check of run_single_task.
AtCapacity(c, m) == c >= m

\* dispose(): `if _INSTANCE_COUNT > 0: _INSTANCE_COUNT -= 1`
DisposeCountUnguarded(c) == c - 1
DisposeCount(c) == IF c > 0 THEN c - 1 ELSE c

\* delegate: `if not tasks`
EmptyTasksNever(tasks) == FALSE
EmptyTasks(tasks) == Len(tasks) = 0

\* delegate: `if current_depth >= 3`
DepthExceeded(d) == d >= MAX_CLONE_DEPTH

\* run_single_task: `clone_depth=current_depth + 1`
ChildDepthSame(d) == d
ChildDepth(d) == d + 1

\* run_single_task: create(created_context, ...): the clone gets the fresh context
ChildContextShared(createdContext, parentContext) == parentContext
ChildContext(createdContext, parentContext) == createdContext

\* run_single_task, finally: `if clone is not None: clone.dispose()`
FinallyDisposesNever(cloneCreated) == FALSE
FinallyDisposes(cloneCreated) == cloneCreated

\* run_single_task, finally: `if created_context is not None: await created_context.close()`
FinallyCloses(createdContext) == createdContext # None

\* the dict a subtask returns
TaskResult(task, status) == [task |-> task, status |-> status]
NoResult == [task |-> "", status |-> "none"]

\* the `except RuntimeError` / `except Exception` clauses of run_single_task:
\* the status each exit reports
StatusOf(path) ==
    CASE path = "run_ok" -> "ok"
      [] path \in {"denied_check", "denied_create", "setup_runtime_error"} -> "denied"
      [] OTHER -> "error"

\* `except Exception` around the whole body: no failure leaves run_single_task
EscapesRunError(path) == path = "run_error"
Escapes(path) == FALSE

\* asyncio.gather(*(run_single_task(t) for t in tasks)): results in input order
GatherReversed(rets, slots) == [i \in 1..Len(slots) |-> rets[slots[Len(slots) + 1 - i]]]
GatherResults(rets, slots) == [i \in 1..Len(slots) |-> rets[slots[i]]]

NoCall == [kind |-> "none", error |-> "", entries |-> <<>>]
ErrorObject(msg) == [kind |-> "error", error |-> msg, entries |-> <<>>]
ArrayResult(entries) == [kind |-> "array", error |-> "", entries |-> entries]
Raised == [kind |-> "raised", error |-> "", entries |-> <<>>]

\* context.browser: a persistent context has no browser; a context made by
\* browser.new_context has one
HasBrowser(a) == ~(a = Root /\ persistent)

FreeSlots == {t \in Slots : pc[t] = "free"}
Min(S) == CHOOSE x \in S : \A y \in S : x <= y

RECURSIVE TakeSlots(_, _)
TakeSlots(S, n) ==
    IF n = 0 THEN <<>> ELSE <<Min(S)>> \o TakeSlots(S \ {Min(S)}, n - 1)

SeqRange(s) == {s[i] : i \in 1..Len(s)}
\* the task lists delegate is called with: up to NumSlots names, neighbours differing
TaskLists ==
    {s \in UNION {[1..n -> TaskNames] : n \in 0..NumSlots} :
        \A i \in 1..(Len(s) - 1) : s[i] # s[i + 1]}

\* the group chat: the agents of one room, the default maximum of a room,
\* the messages, and a room that earlier posts filled to its maximum
Posters == 1..NumPosters
Runner == 1
GROUPCHAT_MAX_MESSAGES == 200
ChatMessage(sender, n) == [sender |-> sender, n |-> n]
FullRoom(max) == [i \in 1..max |-> ChatMessage(0, i)]

\* ------------------------------------------------------------------- Init
\* the process after start, the store of the group chat and the history of
\* earlier invocations apart
InitProcess ==
    /\ maxInstances \in {SmallCap, DEFAULT_MAX_INSTANCES}
    /\ count = 0
    /\ pc = [a \in Agents |-> IF a = Root THEN "idle" ELSE "free"]
    /\ persistent = FALSE
    /\ browserOpen = FALSE
    /\ openCtx = {}
    /\ created = [a \in Agents |-> FALSE]
    /\ depth = [a \in Agents |-> 0]
    /\ actx = [a \in Agents |-> None]
    /\ tctx = [t \in Slots |-> None]
    /\ tparent = [t \in Slots |-> None]
    /\ tpath = [t \in Slots |-> "none"]
    /\ ret = [a \in Agents |-> NoResult]
    /\ dpc = [a \in Agents |-> "none"]
    /\ dtasks = [a \in Agents |-> <<>>]
    /\ dslots = [a \in Agents |-> <<>>]
    /\ dresult = [a \in Agents |-> NoCall]
    /\ dbefore = [a \in Agents |-> 0]
    /\ runBefore = 0
    /\ disposeCalls = [a \in Agents |-> 0]
    /\ hpc = [h \in Handles |-> "none"]
    /\ hdisp = [h \in Handles |-> 0]
    /\ gpc = "idle"
    /\ messages = <<>>
    /\ steps = 0
    /\ enableSummarization = FALSE
    /\ entry = "none"
    /\ llmStuck = FALSE
    /\ llmCalls = 0
    /\ runStart = 0
    /\ outcome = [kind |-> "none", value |-> ""]
    /\ currentState = persistentMessages
    /\ invocations = 0
    /\ ctxPages = <<1>>
    /\ pageVer = [p \in 1..NumPages |-> 0]
    /\ pagesMade = 1
    /\ cur = 0
    /\ bboxes = <<>>
    /\ actionCount = 0
    /\ last = [op |-> "none", res |-> "none", inc |-> FALSE, bad |-> FALSE,
               sent |-> FALSE, human |-> FALSE, nraised |-> FALSE,
               ndiff |-> FALSE, diff |-> FALSE, arg |-> <<>>,
               fault |-> FALSE, waited |-> 0, md |-> "", delivered |-> 0]
    /\ toolCalls = 0
    /\ obsBoxes = <<>>
    /\ tnCalls = <<>>
    /\ tnPc = <<>>
    /\ tnLocal = <<>>
    /\ tnOut = <<>>
    /\ storeUp = TRUE
    /\ cpc = "idle"
    /\ csub = [p \in Posters |-> "none"]
    /\ cposts = [p \in Posters |-> 0]
    /\ cturns = 0
    /\ cprompt = <<>>
    /\ ctool = "none"
    /\ assignedNames = {}
    /\ returnedNames = <<>>
    /\ spc = "idle"
    /\ shist = <<>>
    /\ sparent = ""
    /\ stasks = <<>>
    /\ sres = [kind |-> "none", value |-> ""]
    /\ sfailed = FALSE
    /\ sllm = 0
    /\ ssummary = ""
    /\ sbriefs = <<>>
    /\ bpc = "idle"
    /\ bentry = "none"
    /\ bmsgs = <<>>
    /\ byield = <<>>
    /\ bret = [kind |-> "none", value |-> ""]
    /\ berr = ""

\* a room of the default size that nobody wrote to
Init ==
    /\ persistentMessages = <<>>
    /\ InitProcess
    /\ roomMax = GROUPCHAT_MAX_MESSAGES
    /\ room = <<>>

\* state.get("clone_depth", 0) in delegate: the clone_depth the calling agent
\* was created with, which the agent puts into the state it runs its graph on
CurrentDepth(a) == depth[a]

\* --------------------------------------------------- Agent.run (the facade)

\* async_playwright ... launch_persistent_context / launch + new_context,
\* up to the await of apply_fingerprint_profile_to_context inside the try
RootLaunch(p) ==
    /\ pc[Root] = "idle"
    /\ persistent' = p
    /\ browserOpen' = TRUE
    /\ openCtx' = openCtx \cup {Root}
    /\ runBefore' = count
    /\ pc' = [pc EXCEPT ![Root] = "launched"]
    /\ UNCHANGED <<loopVars, smVars, tnVars, chatVars, otherVars, maxInstances, count, created, depth, actx, tctx, tparent,
                   tpath, ret, dpc, dtasks, dslots, dresult, dbefore,
                   disposeCalls, apiVars>>

\* fingerprint applied; KageBunshinAgent.create is entered: the cap test, then
\* the await of the state manager's creation; a RuntimeError goes to finally
RootCreateCheck ==
    /\ pc[Root] = "launched"
    /\ IF AtCapacity(count, maxInstances)
         THEN /\ ret' = [ret EXCEPT ![Root] = TaskResult("", "raised")]
              /\ pc' = [pc EXCEPT ![Root] = "closing"]
         ELSE /\ ret' = ret
              /\ pc' = [pc EXCEPT ![Root] = "sm_create"]
    /\ UNCHANGED <<loopVars, smVars, tnVars, chatVars, otherVars, maxInstances, count, persistent, browserOpen, openCtx,
                   created, depth, actx, tctx, tparent, tpath, dpc, dtasks,
                   dslots, dresult, dbefore, runBefore, disposeCalls,
                   apiVars>>

\* apply_fingerprint_profile_to_context raises inside the try: finally runs
RootSetupFail ==
    /\ pc[Root] = "launched"
    /\ ret' = [ret EXCEPT ![Root] = TaskResult("", "raised")]
    /\ pc' = [pc EXCEPT ![Root] = "closing"]
    /\ UNCHANGED <<loopVars, smVars, tnVars, chatVars, otherVars, maxInstances, count, persistent, browserOpen, openCtx,
                   created, depth, actx, tctx, tparent, tpath, dpc, dtasks,
                   dslots, dresult, dbefore, runBefore, disposeCalls,
                   apiVars>>

\* the state manager is there: the instance is built, `_INSTANCE_COUNT += 1`,
\* create returns and agent.ainvoke(task) starts
RootCreateDone ==
    /\ pc[Root] = "sm_create"
    /\ count' = count + 1
    /\ created' = [created EXCEPT ![Root] = TRUE]
    /\ depth' = [depth EXCEPT ![Root] = 0]
    /\ actx' = [actx EXCEPT ![Root] = Root]
    /\ pc' = [pc EXCEPT ![Root] = "running"]
    /\ UNCHANGED <<loopVars, smVars, tnVars, chatVars, otherVars, maxInstances, persistent, browserOpen, openCtx, tctx,
                   tparent, tpath, ret, dpc, dtasks, dslots, dresult, dbefore,
                   runBefore, disposeCalls, apiVars>>

\* the state manager's creation raises (new_page / goto fails)
RootCreateFail ==
    /\ pc[Root] = "sm_create"
    /\ ret' = [ret EXCEPT ![Root] = TaskResult("", "raised")]
    /\ pc' = [pc EXCEPT ![Root] = "closing"]
    /\ UNCHANGED <<loopVars, smVars, tnVars, chatVars, otherVars, maxInstances, count, persistent, browserOpen, openCtx,
                   created, depth, actx, tctx, tparent, tpath, dpc, dtasks,
                   dslots, dresult, dbefore, runBefore, disposeCalls,
                   apiVars>>

\* agent.ainvoke(task) returns (ok) or raises; the finally clause starts and
\* awaits browser.close() / context.close().  It does not call dispose().
RootFinish(ok) ==
    /\ pc[Root] = "running"
    /\ dpc[Root] = "none"
    /\ ret' = [ret EXCEPT ![Root] = TaskResult("", IF ok THEN "ok" ELSE "raised")]
    /\ pc' = [pc EXCEPT ![Root] = "closing"]
    /\ UNCHANGED <<loopVars, smVars, tnVars, chatVars, otherVars, maxInstances, count, persistent, browserOpen, openCtx,
                   created, depth, actx, tctx, tparent, tpath, dpc, dtasks,
                   dslots, dresult, dbefore, runBefore, disposeCalls,
                   apiVars>>

\* browser.close() / context.close() is done; run() returns or re-raises
RootClose ==
    /\ pc[Root] = "closing"
    /\ browserOpen' = FALSE
    /\ openCtx' = openCtx \ {Root}
    /\ pc' = [pc EXCEPT ![Root] = "ended"]
    /\ UNCHANGED <<loopVars, smVars, tnVars, chatVars, otherVars, maxInstances, count, persistent, created, depth, actx,
                   tctx, tparent, tpath, ret, dpc, dtasks, dslots, dresult,
                   dbefore, runBefore, disposeCalls, apiVars>>

\* ------------------------------------------------------------- delegate

\* An agent whose loop is running calls delegate(tasks).  A call that fails
\* its argument or depth test returns an error object at once; otherwise the
\* call awaits the summarizer.
DelegateCall(a, tasks) ==
    /\ pc[a] = "running"
    /\ created[a]
    /\ dpc[a] = "none"
    /\ dtasks' = [dtasks EXCEPT ![a] = tasks]
    /\ dbefore' = [dbefore EXCEPT ![a] = count]
    /\ IF EmptyTasks(tasks)
         THEN /\ dresult' = [dresult EXCEPT ![a] =
                                ErrorObject("'tasks' must be a non-empty list of strings")]
              /\ dpc' = [dpc EXCEPT ![a] = "returned"]
              /\ UNCHANGED <<pc, dslots, tparent>>
         ELSE IF DepthExceeded(CurrentDepth(a))
         THEN /\ dresult' = [dresult EXCEPT ![a] = ErrorObject("Maximum clone depth")]
              /\ dpc' = [dpc EXCEPT ![a] = "returned"]
              /\ UNCHANGED <<pc, dslots, tparent>>
         ELSE LET slots == TakeSlots(FreeSlots, Len(tasks)) IN
              /\ Len(tasks) <= Cardinality(FreeSlots)
              /\ dresult' = dresult
              /\ dpc' = [dpc EXCEPT ![a] = "summarize"]
              /\ dslots' = [dslots EXCEPT ![a] = slots]
              /\ pc' = [t \in Agents |->
                          IF t \in SeqRange(slots) THEN "pending" ELSE pc[t]]
              /\ tparent' = [t \in Slots |->
                          IF t \in SeqRange(slots) THEN a ELSE tparent[t]]
    /\ UNCHANGED <<loopVars, smVars, tnVars, chatVars, otherVars, maxInstances, count, persistent, browserOpen, openCtx,
                   created, depth, actx, tctx, tpath, ret, runBefore,
                   disposeCalls, apiVars>>

\* _summarize_conversation_history returned (a summary or the fallback);
\* gather schedules one run_single_task per task
DelegateGather(a) ==
    /\ dpc[a] = "summarize"
    /\ dpc' = [dpc EXCEPT ![a] = "gather"]
    /\ pc' = [t \in Agents |->
                IF t \in SeqRange(dslots[a]) THEN "start" ELSE pc[t]]
    /\ UNCHANGED <<loopVars, smVars, tnVars, chatVars, otherVars, maxInstances, count, persistent, browserOpen, openCtx,
                   created, depth, actx, tctx, tparent, tpath, ret, dtasks,
                   dslots, dresult, dbefore, runBefore, disposeCalls, apiVars>>

\* every subtask has settled: gather returns the list and delegate returns
\* json.dumps of it (or the exception a subtask let escape propagates)
DelegateReturn(a) ==
    /\ dpc[a] = "gather"
    /\ \A t \in SeqRange(dslots[a]) : pc[t] = "done"
    /\ dresult' = [dresult EXCEPT ![a] =
                     IF \E t \in SeqRange(dslots[a]) : ret[t].status = "raised"
                       THEN Raised
                       ELSE ArrayResult(GatherResults(ret, dslots[a]))]
    /\ dpc' = [dpc EXCEPT ![a] = "returned"]
    /\ UNCHANGED <<loopVars, smVars, tnVars, chatVars, otherVars, maxInstances, count, pc, persistent, browserOpen, openCtx,
                   created, depth, actx, tctx, tparent, tpath, ret, dtasks,
                   dslots, dbefore, runBefore, disposeCalls, apiVars>>

\* the tool result reaches the caller's loop; the call's coroutines and the
\* clones they held are gone
DelegateConsume(a) ==
    /\ dpc[a] = "returned"
    /\ LET S == SeqRange(dslots[a]) IN
       /\ pc' = [t \in Agents |-> IF t \in S THEN "free" ELSE pc[t]]
       /\ created' = [t \in Agents |-> IF t \in S THEN FALSE ELSE created[t]]
       /\ depth' = [t \in Agents |-> IF t \in S THEN 0 ELSE depth[t]]
       /\ actx' = [t \in Agents |-> IF t \in S THEN None ELSE actx[t]]
       /\ ret' = [t \in Agents |-> IF t \in S THEN NoResult ELSE ret[t]]
       /\ disposeCalls' = [t \in Agents |-> IF t \in S THEN 0 ELSE disposeCalls[t]]
       /\ tctx' = [t \in Slots |-> IF t \in S THEN None ELSE tctx[t]]
       /\ tparent' = [t \in Slots |-> IF t \in S THEN None ELSE tparent[t]]
       /\ tpath' = [t \in Slots |-> IF t \in S THEN "none" ELSE tpath[t]]
    /\ dpc' = [dpc EXCEPT ![a] = "none"]
    /\ dtasks' = [dtasks EXCEPT ![a] = <<>>]
    /\ dslots' = [dslots EXCEPT ![a] = <<>>]
    /\ dresult' = [dresult EXCEPT ![a] = NoCall]
    /\ dbefore' = [dbefore EXCEPT ![a] = 0]
    /\ UNCHANGED <<loopVars, smVars, tnVars, chatVars, otherVars, maxInstances, count, persistent, browserOpen, openCtx,
                   runBefore, apiVars>>

\* ------------------------------------------------------- run_single_task

\* a subtask settles with the dict of its exit `path` (or lets it escape)
Settle(t, path) ==
    IF Escapes(path) THEN TaskResult(dtasks[tparent[t]][CHOOSE i \in 1..Len(dslots[tparent[t]]) : dslots[tparent[t]][i] = t], "raised")
    ELSE TaskResult(dtasks[tparent[t]][CHOOSE i \in 1..Len(dslots[tparent[t]]) : dslots[tparent[t]][i] = t], StatusOf(path))

\* from the start of the coroutine to `await browser.new_context(...)`:
\* the best-effort capacity check and the test of context.browser
TaskStart(t) ==
    /\ pc[t] = "start"
    /\ IF AtCapacity(count, maxInstances)
         THEN /\ tpath' = [tpath EXCEPT ![t] = "denied_check"]
              /\ ret' = [ret EXCEPT ![t] = Settle(t, "denied_check")]
              /\ pc' = [pc EXCEPT ![t] = "done"]
         ELSE IF ~HasBrowser(tparent[t])
         THEN /\ tpath' = [tpath EXCEPT ![t] = "no_browser"]
              /\ ret' = [ret EXCEPT ![t] = Settle(t, "no_browser")]
              /\ pc' = [pc EXCEPT ![t] = "done"]
         ELSE /\ pc' = [pc EXCEPT ![t] = "new_context"]
              /\ UNCHANGED <<tpath, ret>>
    /\ UNCHANGED <<loopVars, smVars, tnVars, chatVars, otherVars, maxInstances, count, persistent, browserOpen, openCtx,
                   created, depth, actx, tctx, tparent, dpc, dtasks, dslots,
                   dresult, dbefore, runBefore, disposeCalls, apiVars>>

\* browser.new_context returned a fresh context; apply_fingerprint_... is awaited
TaskNewContext(t) ==
    /\ pc[t] = "new_context"
    /\ tctx' = [tctx EXCEPT ![t] = t]
    /\ openCtx' = openCtx \cup {t}
    /\ pc' = [pc EXCEPT ![t] = "fingerprint"]
    /\ UNCHANGED <<loopVars, smVars, tnVars, chatVars, otherVars, maxInstances, count, persistent, browserOpen, created,
                   depth, actx, tparent, tpath, ret, dpc, dtasks, dslots,
                   dresult, dbefore, runBefore, disposeCalls, apiVars>>

\* browser.new_context raised: except Exception, then finally with nothing to release
TaskNewContextFail(t) ==
    /\ pc[t] = "new_context"
    /\ tpath' = [tpath EXCEPT ![t] = "ctx_error"]
    /\ ret' = [ret EXCEPT ![t] = Settle(t, "ctx_error")]
    /\ pc' = [pc EXCEPT ![t] = "done"]
    /\ UNCHANGED <<loopVars, smVars, tnVars, chatVars, otherVars, maxInstances, count, persistent, browserOpen, openCtx,
                   created, depth, actx, tctx, tparent, dpc, dtasks, dslots,
                   dresult, dbefore, runBefore, disposeCalls, apiVars>>

\* what the finally clause does once the subtask's exit is known: dispose the
\* clone if there is one, then await the close of the context if there is one
Finally(t, path) ==
    /\ tpath' = [tpath EXCEPT ![t] = path]
    /\ ret' = [ret EXCEPT ![t] = Settle(t, path)]
    /\ IF FinallyDisposes(created[t])
         THEN /\ count' = DisposeCount(count)
              /\ disposeCalls' = [disposeCalls EXCEPT ![t] = @ + 1]
         ELSE UNCHANGED <<count, disposeCalls>>
    /\ pc' = [pc EXCEPT ![t] = IF FinallyCloses(tctx[t]) THEN "closing" ELSE "done"]

\* the fingerprint step ended (its failure is swallowed); the name and tools
\* are made and KageBunshinAgent.create is entered: the cap test, then the
\* await of the state manager's creation; RuntimeError is reported as denied
TaskCreateCheck(t) ==
    /\ pc[t] = "fingerprint"
    /\ IF AtCapacity(count, maxInstances)
         THEN Finally(t, "denied_create")
         ELSE /\ pc' = [pc EXCEPT ![t] = "sm_create"]
              /\ UNCHANGED <<tpath, ret, count, disposeCalls>>
    /\ UNCHANGED <<loopVars, smVars, tnVars, chatVars, otherVars, maxInstances, persistent, browserOpen, openCtx, created,
                   depth, actx, tctx, tparent, dpc, dtasks, dslots, dresult,
                   dbefore, apiVars, runBefore>>

\* the state manager is there: the instance is built, `_INSTANCE_COUNT += 1`,
\* create returns the clone and clone.ainvoke(briefing) starts
TaskCreateDone(t) ==
    /\ pc[t] = "sm_create"
    /\ count' = count + 1
    /\ created' = [created EXCEPT ![t] = TRUE]
    /\ depth' = [depth EXCEPT ![t] = ChildDepth(CurrentDepth(tparent[t]))]
    /\ actx' = [actx EXCEPT ![t] = ChildContext(tctx[t], actx[tparent[t]])]
    /\ pc' = [pc EXCEPT ![t] = "running"]
    /\ UNCHANGED <<loopVars, smVars, tnVars, chatVars, otherVars, maxInstances, persistent, browserOpen, openCtx, tctx,
                   tparent, tpath, ret, dpc, dtasks, dslots, dresult, dbefore,
                   runBefore, disposeCalls, apiVars>>

\* the state manager's creation (new_page, goto) or the constructor raised: a
\* RuntimeError is caught by `except RuntimeError` like the cap's, any other
\* exception by `except Exception`
TaskCreateFail(t, runtimeError) ==
    /\ pc[t] = "sm_create"
    /\ Finally(t, IF runtimeError THEN "setup_runtime_error" ELSE "setup_error")
    /\ UNCHANGED <<loopVars, smVars, tnVars, chatVars, otherVars, maxInstances, persistent, browserOpen, openCtx, created,
                   depth, actx, tctx, tparent, dpc, dtasks, dslots, dresult,
                   dbefore, apiVars, runBefore>>

\* clone.ainvoke returned its answer (ok) or raised
TaskRunEnd(t, ok) ==
    /\ pc[t] = "running"
    /\ dpc[t] = "none"
    /\ Finally(t, IF ok THEN "run_ok" ELSE "run_error")
    /\ UNCHANGED <<loopVars, smVars, tnVars, chatVars, otherVars, maxInstances, persistent, browserOpen, openCtx, created,
                   depth, actx, tctx, tparent, dpc, dtasks, dslots, dresult,
                   dbefore, apiVars, runBefore>>

\* created_context.close() ended (a failure of it is swallowed); the dict is returned
TaskClose(t) ==
    /\ pc[t] = "closing"
    /\ openCtx' = openCtx \ {tctx[t]}
    /\ pc' = [pc EXCEPT ![t] = "done"]
    /\ UNCHANGED <<loopVars, smVars, tnVars, chatVars, otherVars, maxInstances, count, persistent, browserOpen, created,
                   depth, actx, tctx, tparent, tpath, ret, dpc, dtasks, dslots,
                   dresult, dbefore, runBefore, disposeCalls, apiVars>>

\* ------------------------------------------------------------------ Next
Next ==
    \/ \E p \in BOOLEAN : RootLaunch(p)
    \/ RootCreateCheck
    \/ RootSetupFail
    \/ RootCreateDone
    \/ RootCreateFail
    \/ \E ok \in BOOLEAN : RootFinish(ok)
    \/ RootClose
    \/ \E a \in Agents, tasks \in TaskLists : DelegateCall(a, tasks)
    \/ \E a \in Agents : DelegateGather(a)
    \/ \E a \in Agents : DelegateReturn(a)
    \/ \E a \in Agents : DelegateConsume(a)
    \/ \E t \in Slots : TaskStart(t)
    \/ \E t \in Slots : TaskNewContext(t)
    \/ \E t \in Slots : TaskNewContextFail(t)
    \/ \E t \in Slots : TaskCreateCheck(t)
    \/ \E t \in Slots : TaskCreateDone(t)
    \/ \E t \in Slots, runtimeError \in BOOLEAN : TaskCreateFail(t, runtimeError)
    \/ \E t \in Slots, ok \in BOOLEAN : TaskRunEnd(t, ok)
    \/ \E t \in Slots : TaskClose(t)

Spec == Init /\ [][Next]_vars

\* ------------------------------- a direct client of create() and dispose()

\* create() is entered: the cap test (RuntimeError when at capacity), then the
\* await of the state manager's creation
ApiCreateCheck(h) ==
    /\ hpc[h] = "none"
    /\ hpc' = [hpc EXCEPT ![h] =
                 IF AtCapacity(count, maxInstances) THEN "denied" ELSE "sm_create"]
    /\ UNCHANGED <<loopVars, smVars, tnVars, chatVars, otherVars, maxInstances, count, agentVars, hdisp>>

\* the instance is built, `_INSTANCE_COUNT += 1`, create returns it
ApiCreateDone(h) ==
    /\ hpc[h] = "sm_create"
    /\ count' = count + 1
    /\ hpc' = [hpc EXCEPT ![h] = "held"]
    /\ UNCHANGED <<loopVars, smVars, tnVars, chatVars, otherVars, maxInstances, agentVars, hdisp>>

\* the client calls dispose() on an agent it holds, disposed already or not
ApiDispose(h) ==
    /\ hpc[h] = "held"
    /\ hdisp[h] < MaxDisposeCalls
    /\ count' = DisposeCount(count)
    /\ hdisp' = [hdisp EXCEPT ![h] = @ + 1]
    /\ UNCHANGED <<loopVars, smVars, tnVars, chatVars, otherVars, maxInstances, agentVars, hpc>>

NextApi ==
    \/ \E h \in Handles : ApiCreateCheck(h)
    \/ \E h \in Handles : ApiCreateDone(h)
    \/ \E h \in Handles : ApiDispose(h)

SpecApi == Init /\ [][NextApi]_vars

\* ====================================================== the reason/act loop
\* WebVoyagerV2.ainvoke / astream run the compiled graph
\*     agent -> (should_continue) -> action -> [summarizer ->] agent
\* One action below is one super-step of the graph: a node and the edge out
\* of it.

\* --------------------------------------------------------- bounds (the loop)
MaxVaried == 1           \* turns with tool calls an LLM that is not stuck makes
MaxCalls == 2            \* tool calls one assistant message carries at most

\* ------------------------------------------------ program constants (loop)
recursion_limit == 100
FINAL_MARKER == "[FINAL ANSWER]"
NO_ANSWER == "Task completed, but no specific answer was provided."
SUMMARY_PREFIX == "Summary of last action: "

\* ------------------------------------------------------------------ strings

\* str.startswith
StartsWith(s, p) == Len(s) >= Len(p) /\ SubSeq(s, 1, Len(p)) = p

\* `m in s`
Contains(s, m) ==
    \E i \in 1..(Len(s) - Len(m) + 1) : SubSeq(s, i, i + Len(m) - 1) = m

\* s.replace(m, '')
RECURSIVE Replace(_, _)
Replace(s, m) ==
    IF Len(s) < Len(m) THEN s
    ELSE IF StartsWith(s, m) THEN Replace(SubSeq(s, Len(m) + 1, Len(s)), m)
    ELSE SubSeq(s, 1, 1) \o Replace(SubSeq(s, 2, Len(s)), m)

\* s.strip(), for the blank as the only whitespace
RECURSIVE Strip(_)
Strip(s) ==
    IF Len(s) = 0 THEN s
    ELSE IF SubSeq(s, 1, 1) = " " THEN Strip(SubSeq(s, 2, Len(s)))
    ELSE IF SubSeq(s, Len(s), Len(s)) = " " THEN Strip(SubSeq(s, 1, Len(s) - 1))
    ELSE s

\* ----------------------------------------------------------------- messages
HumanMessage(c) ==
    [role |-> "human", content |-> c, tool_calls |-> <<>>, tool_call_id |-> None]
AIMessage(c, calls) ==
    [role |-> "ai", content |-> c, tool_calls |-> calls, tool_call_id |-> None]
ToolMessage(c, id) ==
    [role |-> "tool", content |-> c, tool_calls |-> <<>>, tool_call_id |-> id]
SystemMessage(c) ==
    [role |-> "system", content |-> c, tool_calls |-> <<>>, tool_call_id |-> None]

\* the ids of the k tool calls of the assistant message of LLM call number n
ToolCallIds(n, k) == [j \in 1..k |-> n * (MaxCalls + 1) + j]

\* what an assistant, a tool or a user can write
Contents ==
    {"", "Done.", "[FINAL ANSWER] Paris", "[Paris] is the capital",
     "The capital is Paris"}
\* what an assistant writes next to its tool calls
ToolTurnContents == {"", "[FINAL ANSWER] Paris", "The capital is Paris"}
ToolOutputs == {"Successfully navigated to https://example.com"}
Queries == {"What is the capital of France?"}
EntryPoints == {"ainvoke", "astream"}

\* persistent_messages: empty on a first invocation, the history of an earlier
\* invocation afterwards
PersistentHistories ==
    {<<>>,
     <<HumanMessage("What is the capital of Italy?"),
       AIMessage("[FINAL ANSWER] Rome", <<>>)>>}

\* the answer of an LLM that is stuck, for LLM call number n
RepeatAnswer(n) == AIMessage("", ToolCallIds(n, 1))

\* ------------------------------------------------------------ pure pieces

\* should_continue
ShouldContinue(msgs) ==
    LET last_message == msgs[Len(msgs)]
    IN  IF last_message.role = "ai" /\ Len(last_message.tool_calls) > 0
        THEN "continue"
        ELSE "end"

\* ToolNode: one ToolMessage per tool call of the last message, in the order
\* of the calls
ToolResultsReversed(calls, r) ==
    [j \in 1..Len(calls) |-> ToolMessage(r, calls[Len(calls) + 1 - j])]
ToolResults(calls, r) ==
    [j \in 1..Len(calls) |-> ToolMessage(r, calls[j])]

\* `for msg in reversed(...)`: the last of the positions S, 0 when S is empty
LastOf(S) == IF S = {} THEN 0 ELSE CHOOSE i \in S : \A j \in S : j <= i

\* summarize_tool_results: what the node adds to state["messages"].  `return
\* state` adds nothing, the add_messages reducer merging by message id.
HasToolCalls(m) == m.role = "ai" /\ Len(m.tool_calls) > 0
NothingToSummarize(msgs) ==
    LET ai_message == LastOf({i \in 1..Len(msgs) : HasToolCalls(msgs[i])})
        tool_messages == {i \in (ai_message + 1)..Len(msgs) : msgs[i].role = "tool"}
    IN  ai_message = 0 \/ tool_messages = {}
SummaryMessages(msgs, enabled, llmOk, text) ==
    IF ~enabled \/ NothingToSummarize(msgs) \/ ~llmOk
    THEN <<>>
    ELSE <<SystemMessage(SUMMARY_PREFIX \o text)>>

\* _extract_final_answer
HasMarker(m) == m.content # "" /\ Contains(m.content, FINAL_MARKER)
IsSubstantial(m) ==
    /\ m.content # ""
    /\ LET content == Strip(m.content)
       IN  content # "" /\ ~StartsWith(content, "[") /\ Len(content) > 10
ExtractFinalAnswer(msgs) ==
    LET i == LastOf({k \in 1..Len(msgs) : HasMarker(msgs[k])})
        j == LastOf({k \in 1..Len(msgs) : IsSubstantial(msgs[k])})
    IN  IF i > 0 THEN Strip(Replace(msgs[i].content, FINAL_MARKER))
        ELSE IF j > 0 THEN Strip(msgs[j].content)
        ELSE NO_ANSWER

\* the graph stops with GraphRecursionError when it has run recursion_limit
\* super-steps and a node is still to run
OutOfStepsNever(n) == FALSE
OutOfSteps(n) == n >= recursion_limit

\* what the entry point hands its caller once the graph has returned
Returned(s) == [kind |-> "returned", value |-> s]
RaisedError(e) == [kind |-> "raised", value |-> e]
StreamExhausted == [kind |-> "exhausted", value |-> ""]
GraphDone(e, msgs) ==
    IF e = "ainvoke" THEN Returned(ExtractFinalAnswer(msgs)) ELSE StreamExhausted

\* state_manager.current_state["messages"] once the entry point is through.
\* ainvoke: set_state(final_state) with the state the graph returned.
\* astream: nothing after the stream sets it, so it is still the state that
\* the last call_agent gave set_state in _build_agent_messages, before the
\* LLM answered
StateAfterRun(e, seen, final) == IF e = "ainvoke" THEN final ELSE seen

\* ------------------------------------------------------------------ actions

\* ainvoke / astream up to the first node: the announcement to the group chat
\* (failures swallowed), initial_state, the graph is entered
StartRun(e, query, persisted, summarize, stuck) ==
    /\ gpc = "idle"
    /\ persisted = persistentMessages
    /\ entry' = e
    /\ messages' = persisted \o <<HumanMessage(query)>>
    /\ runStart' = Len(persisted)
    /\ invocations' = invocations + 1
    /\ enableSummarization' = summarize
    /\ llmStuck' = stuck
    /\ steps' = 0
    /\ llmCalls' = 0
    /\ gpc' = "agent"
    /\ UNCHANGED <<outcome, persistentMessages, currentState, lifecycleVars,
                   smVars,
                   tnVars, chatVars, otherVars>>

\* node "agent": call_agent appends the LLM's response; should_continue then
\* routes to "action" or ends the graph, and on the end the entry point
\* returns
CallAgent(c, k) ==
    /\ gpc = "agent"
    /\ ~OutOfSteps(steps)
    /\ IF llmStuck
       THEN AIMessage(c, ToolCallIds(llmCalls, k)) = RepeatAnswer(llmCalls)
       ELSE /\ llmCalls < MaxVaried \/ k = 0
            /\ k > 0 => c \in ToolTurnContents
    /\ messages' = Append(messages, AIMessage(c, ToolCallIds(llmCalls, k)))
    /\ steps' = steps + 1
    /\ llmCalls' = llmCalls + 1
    /\ IF ShouldContinue(messages') = "continue"
       THEN /\ gpc' = "action"
            /\ currentState' = messages
            /\ UNCHANGED <<outcome, persistentMessages>>
       ELSE /\ gpc' = "ended"
            /\ outcome' = GraphDone(entry, messages')
            /\ currentState' = StateAfterRun(entry, messages, messages')
            /\ persistentMessages' = currentState'
    /\ UNCHANGED <<enableSummarization, entry, llmStuck, runStart, invocations,
                   lifecycleVars, smVars,
                   tnVars, chatVars, otherVars>>

\* node "agent": llm_with_tools.ainvoke raises; nothing between the call and
\* the caller of ainvoke / astream catches
CallAgentFail ==
    /\ gpc = "agent"
    /\ ~OutOfSteps(steps)
    /\ llmCalls' = llmCalls + 1
    /\ steps' = steps + 1
    /\ gpc' = "ended"
    /\ outcome' = RaisedError("LLMError")
    /\ currentState' = messages
    /\ UNCHANGED <<messages, enableSummarization, entry, llmStuck, runStart,
                   persistentMessages, invocations,
                   lifecycleVars, smVars,
                   tnVars, chatVars, otherVars>>

\* node "action": ToolNode runs the tool calls of the last message
Action(r) ==
    /\ gpc = "action"
    /\ ~OutOfSteps(steps)
    /\ messages' = messages \o ToolResults(messages[Len(messages)].tool_calls, r)
    /\ steps' = steps + 1
    /\ gpc' = IF enableSummarization THEN "summarizer" ELSE "agent"
    /\ UNCHANGED <<enableSummarization, entry, llmStuck, llmCalls, runStart,
                   outcome, persistentMessages, currentState, invocations,
                   lifecycleVars, smVars,
                   tnVars, chatVars, otherVars>>

\* node "summarizer": summarize_tool_results
Summarizer(llmOk) ==
    /\ gpc = "summarizer"
    /\ ~OutOfSteps(steps)
    /\ llmStuck => llmOk
    /\ messages' = messages \o
           SummaryMessages(messages, enableSummarization, llmOk, "Done.")
    /\ steps' = steps + 1
    /\ gpc' = "agent"
    /\ UNCHANGED <<enableSummarization, entry, llmStuck, llmCalls, runStart,
                   outcome, persistentMessages, currentState, invocations,
                   lifecycleVars, smVars,
                   tnVars, chatVars, otherVars>>

\* recursion_limit super-steps are used up and a node is still to run: the
\* graph raises GraphRecursionError, which ainvoke / astream let through
GraphRecursionError ==
    /\ gpc \in {"agent", "action", "summarizer"}
    /\ OutOfSteps(steps)
    /\ gpc' = "ended"
    /\ outcome' = RaisedError("GraphRecursionError")
    /\ UNCHANGED <<messages, steps, enableSummarization, entry, llmStuck,
                   llmCalls, runStart, persistentMessages, currentState,
                   invocations, lifecycleVars, smVars,
                   tnVars, chatVars, otherVars>>

NextLoop ==
    \/ \E e \in EntryPoints, q \in Queries, s \in BOOLEAN, k \in BOOLEAN :
          StartRun(e, q, persistentMessages, s, k)
    \/ \E c \in Contents, k \in 0..MaxCalls : CallAgent(c, k)
    \/ CallAgentFail
    \/ \E r \in ToolOutputs : Action(r)
    \/ \E llmOk \in BOOLEAN : Summarizer(llmOk)
    \/ GraphRecursionError

\* the cap on live agents plays no part in a run of the graph; the agent is
\* fresh or has answered an earlier invocation
InitLoop ==
    /\ persistentMessages \in PersistentHistories
    /\ InitProcess /\ maxInstances = DEFAULT_MAX_INSTANCES
    /\ roomMax = GROUPCHAT_MAX_MESSAGES
    /\ room = <<>>

SpecLoop == InitLoop /\ [][NextLoop]_vars

\* the caller has the outcome of the run and may invoke the agent again
RunReturns ==
    /\ gpc = "ended"
    /\ invocations < MaxInvocations
    /\ gpc' = "idle"
    /\ UNCHANGED <<messages, steps, enableSummarization, entry, llmStuck,
                   llmCalls, runStart, outcome, persistentMessages,
                   currentState, invocations, lifecycleVars, smVars,
                   tnVars, chatVars, otherVars>>

\* invocations of one agent, one after the other, with an LLM that answers
\* with text and no tool calls
NextTurns ==
    \/ \E e \in EntryPoints, q \in Queries, s \in BOOLEAN :
          StartRun(e, q, persistentMessages, s, FALSE)
    \/ \E c \in Contents : CallAgent(c, 0)
    \/ CallAgentFail
    \/ RunReturns

SpecTurns == InitLoop /\ [][NextTurns]_vars

\* every super-step of the graph is taken once it can be: the event loop runs
\* the one task of the run, and each LLM and tool call returns
SpecLoopLive == SpecLoop /\ WF_vars(NextLoop)

\* ================================================ the state manager's tools
\* WebVoyagerStateManager: the tool vocabulary of get_tools_for_llm.  One
\* action below is one tool call, from the call to the string it returns (or
\* the exception that leaves it); what the page does in answer to the driver
\* is an input of the action.

\* ------------------------------------------------ program constants (tools)
WAIT_MAX_SECONDS == 20

\* the state the tools work on, as one value
World == [pages |-> ctxPages, ver |-> pageVer, cur |-> cur, made |-> pagesMade]

\* what a page does in answer to an interaction: nothing, its content or url
\* changes, it opens a page, it opens two pages, it closes itself, or the
\* driver call raises
PageReactions == {"none", "change", "newtab", "newtabs", "closed", "raise"}
PlainReactions == {"none", "change", "raise"}
PageIds == 1..NumPages
BoxIds == -1..MaxBoxes
TabIndexes == -1..NumPages
WaitTimes == {<<>>, <<-1>>, <<WAIT_MAX_SECONDS>>, <<WAIT_MAX_SECONDS + 1>>}
WaitStates == {"attached", "hidden"}
Optional(S) == {<<>>} \cup {<<x>> : x \in S}
ScrollTargets ==
    {[kind |-> "page", id |-> 0], [kind |-> "other", id |-> 0]}
        \cup {[kind |-> "element", id |-> i] : i \in BoxIds}
\* scroll: a direction that is not "up" or "down" is tried on the page only
ScrollArgs ==
    {<<t, d>> \in ScrollTargets \X BOOLEAN : d \/ t.kind = "page"}
\* drag: the pairs of elements of which one is element 0
DragPairs == {<<b1, b2>> \in BoxIds \X BoxIds : b1 = 0 \/ b2 = 0}
\* wait_for: a time alone, an element and a state, or nothing
WaitArgs ==
    {<<t, <<>>, "attached">> : t \in WaitTimes}
        \cup {<<<<>>, <<b>>, st>> : b \in BoxIds, st \in WaitStates}
        \cup {<<<<WAIT_MAX_SECONDS>>, <<-1>>, "attached">>}

\* the element lists an annotation can give: element i is a CAPTCHA for odd i
BoxLists == {[i \in 1..n |-> i % 2 = 0] : n \in 0..MaxBoxes}

\* -------------------------------------------------------------- pure pieces

\* get_current_page: `if current_index >= len(pages): raise ValueError`
CurrentPageOk(w) == w.cur < Len(w.pages)
CurrentPage(w) == w.pages[w.cur + 1]

\* _capture_page_state: (url, dom_hash) of the current page and the tab count
CapturePageState(w) == <<w.ver[CurrentPage(w)], Len(w.pages)>>

\* _get_bbox_by_id, as a list of at most one element
BboxById(bx, id) == IF 0 <= id /\ id < Len(bx) THEN <<bx[id + 1]>> ELSE <<>>

\* _get_selector raises ValueError: no such element, or a CAPTCHA
SelectorRaises(bx, id) == BboxById(bx, id) = <<>> \/ BboxById(bx, id)[1]

RemoveAt(s, i) == SubSeq(s, 1, i - 1) \o SubSeq(s, i + 1, Len(s))
IndexOf(s, x) == CHOOSE i \in 1..Len(s) : s[i] = x

\* the page's reaction to an interaction, within the bounds of the model
React(w, reaction) ==
    IF reaction = "change" /\ w.ver[CurrentPage(w)] < MaxVer
    THEN [w EXCEPT !.ver[CurrentPage(w)] = @ + 1]
    ELSE IF reaction = "newtab" /\ w.made < NumPages
    THEN [w EXCEPT !.pages = Append(@, w.made + 1), !.made = @ + 1]
    ELSE IF reaction = "newtabs" /\ w.made + 1 < NumPages
    THEN [w EXCEPT !.pages = @ \o <<w.made + 1, w.made + 2>>, !.made = @ + 2]
    ELSE IF reaction = "closed" /\ Len(w.pages) > 1
    THEN [w EXCEPT !.pages = RemoveAt(@, w.cur + 1)]
    ELSE w

\* _check_for_new_tabs and _update_current_page_in_state.  new_pages.pop()
\* takes an arbitrary element of the set: pop is the page it takes when that
\* page is one of the new ones.
CheckForNewTabs(w, before_pages, pop) ==
    LET new_pages == SeqRange(w.pages) \ SeqRange(before_pages)
        new_page == IF pop \in new_pages THEN pop
                    ELSE CHOOSE p \in new_pages : TRUE
    IN  IF Len(w.pages) > Len(before_pages) /\ new_pages # {}
        THEN [w EXCEPT !.cur = IndexOf(w.pages, new_page) - 1]
        ELSE w

\* get_tabs: raises when the current page cannot be resolved, and otherwise
\* lists the pages of the context, is_active on the current page
GetTabs(w) ==
    [raised |-> ~CurrentPageOk(w),
     tabs |-> IF CurrentPageOk(w)
              THEN [i \in 1..Len(w.pages) |->
                       [tab_index |-> i - 1,
                        is_active |-> w.pages[i] = CurrentPage(w)]]
              ELSE <<>>]
ActiveTabs(w) ==
    {GetTabs(w).tabs[i].tab_index : i \in {j \in 1..Len(GetTabs(w).tabs) :
                                              GetTabs(w).tabs[j].is_active}}

\* the steps of annotate_page that can fail: the PDF fetch, both load-state
\* waits, all ten markPage() attempts, the screenshot
ObserveFailures == {"none", "pdf", "load", "mark", "screenshot"}

\* annotate_page: the Annotation (bboxes, markdown) it returns; an HTML page
\* is annotated with markdown = ""
AnnotatePage(bx, fail) ==
    IF fail = "pdf"
    THEN [bboxes |-> <<>>, markdown |-> "Failed to extract text from PDF"]
    ELSE IF fail = "load"
    THEN [bboxes |-> <<>>, markdown |-> "Failed to stabilize page load"]
    ELSE IF fail = "mark"
    THEN [bboxes |-> <<>>, markdown |-> ""]
    ELSE IF fail = "screenshot"
    THEN [bboxes |-> <<>>, markdown |-> "Failed to annotate page"]
    ELSE [bboxes |-> bx, markdown |-> ""]

\* set_state without `self.current_bboxes = []`
SetStateKeepsBboxes(current_bboxes) == current_bboxes

\* set_state: what becomes of current_bboxes
SetState(current_bboxes) == <<>>

\* get_current_page_data: raises when the current page cannot be resolved,
\* and otherwise annotates the page and assigns current_bboxes
GetCurrentPageData(w, current_bboxes, bx, fail) ==
    IF ~CurrentPageOk(w)
    THEN [raised |-> TRUE, bboxes |-> <<>>, markdown |-> "",
          current_bboxes |-> current_bboxes]
    ELSE [raised |-> FALSE, bboxes |-> AnnotatePage(bx, fail).bboxes,
          markdown |-> AnnotatePage(bx, fail).markdown,
          current_bboxes |-> AnnotatePage(bx, fail).bboxes]

\* what a tool call did and returned
Out(w, res, inc, sent) ==
    [w |-> w, res |-> res, inc |-> inc, sent |-> sent, human |-> FALSE,
     nraised |-> FALSE, ndiff |-> FALSE,
     delivered |-> IF sent /\ res = "ok" THEN 1 ELSE 0]
Successes == {"ok", "ok_fallback"}
ErrorStrings == {"error", "no_effect", "all_failed"}

\* the native attempt of click / type_text / browser_select_option returned
\* and left a page state that differs from the pre-state
NativeChanged(w0, bx, b, n) ==
    LET w1 == IF SelectorRaises(bx, b) THEN w0 ELSE React(w0, n)
    IN  /\ CurrentPageOk(w0)
        /\ ~SelectorRaises(bx, b) /\ n # "raise"
        /\ CurrentPageOk(w1)
        /\ CapturePageState(w1) # CapturePageState(w0)

\* an attempt delivers the interaction to the page when its driver call is
\* made and returns: page.click / fill and press / select_option, or their
\* human-like counterparts
Delivered(attempted, reaction) ==
    IF attempted /\ reaction # "raise" THEN 1 ELSE 0

\* click / type_text / browser_select_option: the pre-state, the native
\* attempt, the human-like attempt.  No page opens while text is typed or an
\* option is selected, so that new_pages.pop() has nothing to choose between
\* there.  selectorInFallback: the human-like helper
\* calls _get_selector (only _select_option_human_like does).
TwoStage(w0, bx, b, n, h, selectorInFallback, pop) ==
    LET before_state == CapturePageState(w0)
        nSent == ~SelectorRaises(bx, b)
        nRaised == ~nSent \/ n = "raise"
        w1 == IF nSent THEN React(w0, n) ELSE w0
        nChanged == NativeChanged(w0, bx, b, n)
        hRefused == \/ BboxById(bx, b) = <<>>
                    \/ selectorInFallback /\ SelectorRaises(bx, b)
                    \/ ~CurrentPageOk(w1)
        hSent == ~hRefused
        w2 == IF hSent THEN React(w1, h) ELSE w1
        hCaptured == hSent /\ h # "raise" /\ CurrentPageOk(w2)
        hChanged == hCaptured /\ CapturePageState(w2) # before_state
    IN  IF ~CurrentPageOk(w0)
        THEN Out(w0, "raised", FALSE, FALSE)
        ELSE IF nChanged
        THEN [w |-> CheckForNewTabs(w1, w0.pages, pop), res |-> "ok", inc |-> TRUE,
              sent |-> TRUE, human |-> FALSE, nraised |-> FALSE, ndiff |-> TRUE,
              delivered |-> 1]
        ELSE [w |-> IF hChanged THEN CheckForNewTabs(w2, w0.pages, pop) ELSE w2,
              res |-> IF hChanged THEN "ok_fallback"
                      ELSE IF hCaptured THEN "no_effect" ELSE "all_failed",
              inc |-> hChanged,
              sent |-> nSent \/ hSent,
              human |-> TRUE,
              nraised |-> nRaised,
              ndiff |-> w1 # w0,
              delivered |-> Delivered(nSent, n) + Delivered(hSent, h)]

\* a tool whose body is `try: [resolve the element]; page = get_current_page();
\* <driver call>; increment_action_count(); return ok / except: return error`
OneStage(w, refused, reaction) ==
    IF refused \/ ~CurrentPageOk(w) THEN Out(w, "error", FALSE, FALSE)
    ELSE IF reaction = "raise" THEN Out(w, "error", FALSE, TRUE)
    ELSE Out(React(w, reaction), "ok", TRUE, TRUE)

\* a tool that reads and does not count: extract_page_content, list_tabs
ReadOnly(w, reaction) ==
    IF ~CurrentPageOk(w) \/ reaction = "raise"
    THEN Out(w, "error", FALSE, FALSE)
    ELSE Out(w, "ok", FALSE, FALSE)

\* scroll
ScrollOut(w, bx, target, directionOk, reaction) ==
    IF ~directionOk THEN Out(w, "error", FALSE, FALSE)
    ELSE IF ~CurrentPageOk(w) THEN Out(w, "error", FALSE, FALSE)
    ELSE IF target.kind = "other" THEN Out(w, "error", FALSE, FALSE)
    ELSE IF target.kind = "element" /\ SelectorRaises(bx, target.id)
    THEN Out(w, "error", FALSE, FALSE)
    ELSE OneStage(w, FALSE, reaction)

\* wait_for
WaitForOut(w, bx, time, bbox_id, state, reaction) ==
    IF ~CurrentPageOk(w) THEN Out(w, "error", FALSE, FALSE)
    ELSE IF time # <<>>
    THEN IF time[1] > WAIT_MAX_SECONDS \/ time[1] < 0 \/ reaction = "raise"
         THEN Out(w, "error", FALSE, FALSE)
         ELSE Out(w, "ok", FALSE, FALSE)
    ELSE IF bbox_id # <<>>
    THEN IF state # "attached" /\ state # "detached"
         THEN Out(w, "error", FALSE, FALSE)
         ELSE IF SelectorRaises(bx, bbox_id[1])
         THEN Out(w, "error", FALSE, FALSE)
         ELSE IF reaction = "raise"
         THEN Out(w, "error", FALSE, TRUE)
         ELSE Out(w, "ok", FALSE, TRUE)
    ELSE Out(w, "ok", FALSE, FALSE)

\* wait_for: the milliseconds given to page.wait_for_timeout, or the timeout
\* given to page.wait_for_selector
WAIT_SELECTOR_TIMEOUT_MS == 5000
WaitedMs(w, bx, time, bbox_id, state) ==
    IF ~CurrentPageOk(w) THEN 0
    ELSE IF time # <<>>
    THEN IF time[1] > WAIT_MAX_SECONDS \/ time[1] < 0 THEN 0
         ELSE time[1] * 1000
    ELSE IF /\ bbox_id # <<>>
            /\ state \in {"attached", "detached"}
            /\ ~SelectorRaises(bx, bbox_id[1])
    THEN WAIT_SELECTOR_TIMEOUT_MS
    ELSE 0

\* switch_tab without the test of the index against len(pages)
SwitchTabAnyIndex(w, tab_index, reaction) ==
    IF reaction = "raise"
    THEN Out(w, "error", FALSE, FALSE)
    ELSE Out([w EXCEPT !.cur = tab_index], "ok", TRUE, FALSE)

\* switch_tab
SwitchTabOut(w, tab_index, reaction) ==
    IF ~(0 <= tab_index /\ tab_index < Len(w.pages)) \/ reaction = "raise"
    THEN Out(w, "error", FALSE, FALSE)
    ELSE Out([w EXCEPT !.cur = tab_index], "ok", TRUE, FALSE)

\* open_new_tab: context.new_page(), goto(url), bring_to_front
OpenNewTabOut(w, url, reaction) ==
    LET opened == [w EXCEPT !.pages = Append(@, w.made + 1), !.made = @ + 1]
    IN  IF url = <<>> /\ reaction = "raise"
        THEN Out(w, "error", FALSE, FALSE)
        ELSE IF reaction = "raise"
        THEN Out(opened, "error", FALSE, FALSE)
        ELSE Out([opened EXCEPT !.cur = Len(opened.pages) - 1], "ok", TRUE, FALSE)

\* close_tab without the refusal to close the last tab
CloseTabEvenLast(w, tab_index, reaction) ==
    LET idx == IF tab_index = <<>> THEN w.cur ELSE tab_index[1]
        closed == [w EXCEPT !.pages = RemoveAt(@, idx + 1)]
    IN  IF ~(0 <= idx /\ idx < Len(w.pages)) THEN Out(w, "error", FALSE, FALSE)
        ELSE IF reaction = "raise" THEN Out(w, "error", FALSE, FALSE)
        ELSE Out(IF idx = w.cur THEN [closed EXCEPT !.cur = 0] ELSE closed,
                 "ok", TRUE, FALSE)

\* close_tab
CloseTabOut(w, tab_index, reaction) ==
    LET idx == IF tab_index = <<>> THEN w.cur ELSE tab_index[1]
        closed == [w EXCEPT !.pages = RemoveAt(@, idx + 1)]
    IN  IF Len(w.pages) <= 1 THEN Out(w, "error", FALSE, FALSE)
        ELSE IF ~(0 <= idx /\ idx < Len(w.pages)) THEN Out(w, "error", FALSE, FALSE)
        ELSE IF reaction = "raise" THEN Out(w, "error", FALSE, FALSE)
        ELSE Out(IF idx = w.cur THEN [closed EXCEPT !.cur = 0] ELSE closed,
                 "ok", TRUE, FALSE)

\* ------------------------------------------------------------------ actions

\* the tool call returns (or raises): the manager's fields and the record of
\* the call
\* arg: the tab index or the time the call was given; fault: a driver call
\* raised; waited: the milliseconds the call asked the driver to wait
ReturnArg(op, bad, arg, fault, waited, out) ==
    /\ toolCalls' = toolCalls + 1
    /\ ctxPages' = out.w.pages
    /\ pageVer' = out.w.ver
    /\ cur' = out.w.cur
    /\ pagesMade' = out.w.made
    /\ actionCount' = IF out.inc THEN actionCount + 1 ELSE actionCount
    /\ last' = [op |-> op, res |-> out.res, inc |-> out.inc, bad |-> bad,
                sent |-> out.sent, human |-> out.human,
                nraised |-> out.nraised, ndiff |-> out.ndiff,
                diff |-> <<out.w.pages, out.w.ver>> # <<ctxPages, pageVer>>,
                arg |-> arg, fault |-> fault, waited |-> waited, md |-> "",
                delivered |-> out.delivered]
    /\ UNCHANGED <<bboxes, obsBoxes, lifecycleVars, loopVars,
                   tnVars, chatVars, otherVars>>

Return(op, bad, out) == ReturnArg(op, bad, <<>>, FALSE, 0, out)

\* the record of a call that builds an Observation
Built(op, fail, page_data) ==
    [op |-> op, res |-> IF page_data.raised THEN "raised" ELSE "ok",
     inc |-> FALSE, bad |-> FALSE, sent |-> FALSE, human |-> FALSE,
     nraised |-> FALSE, ndiff |-> FALSE, diff |-> FALSE, arg |-> <<>>,
     fault |-> fail # "none", waited |-> 0, md |-> page_data.markdown,
     delivered |-> 0]

\* _build_agent_messages: set_state (current_bboxes = []), then
\* get_current_page_data, which fills current_bboxes unless the current page
\* cannot be resolved; _build_page_context and get_tabs resolve the current
\* page again.  An annotation that failed has no elements to choose.
Observe(bx, fail) ==
    /\ toolCalls < MaxToolCalls
    /\ fail = "none" \/ bx = <<>>
    /\ LET page_data == GetCurrentPageData(World, SetState(bboxes), bx, fail)
       IN  /\ bboxes' = page_data.current_bboxes
           /\ obsBoxes' = IF page_data.raised THEN <<>> ELSE page_data.bboxes
           /\ last' = Built("observe", fail, page_data)
    /\ UNCHANGED <<ctxPages, pageVer, pagesMade, cur, actionCount,
                   toolCalls, lifecycleVars, loopVars,
                   tnVars, chatVars, otherVars>>

\* summarize_tool_results: get_current_page_data for the "after" context,
\* with no set_state before it
SummarizerObserve(bx, fail) ==
    /\ toolCalls < MaxToolCalls
    /\ last.op \notin {"none", "observe", "summarize"}
    /\ fail = "none" \/ bx = <<>>
    /\ LET page_data == GetCurrentPageData(World, bboxes, bx, fail)
       IN  /\ bboxes' = page_data.current_bboxes
           /\ obsBoxes' = IF page_data.raised THEN obsBoxes ELSE page_data.bboxes
           /\ last' = Built("summarize", fail, page_data)
    /\ UNCHANGED <<ctxPages, pageVer, pagesMade, cur, actionCount,
                   toolCalls, lifecycleVars, loopVars,
                   tnVars, chatVars, otherVars>>

\* The inputs that cannot matter are fixed: pop when the click cannot open
\* two pages, n when the native attempt sends nothing, h when the human-like
\* attempt is not made or sends nothing.
Click(bbox_id, n, h, pop) ==
    /\ toolCalls < MaxToolCalls
    /\ IF "newtabs" \in {n, h} THEN pop \in {pagesMade + 1, pagesMade + 2}
                               ELSE pop = Head(ctxPages)
    /\ n = "none" \/ ~SelectorRaises(bboxes, bbox_id)
    /\ h = "none" \/ (/\ BboxById(bboxes, bbox_id) # <<>>
                      /\ ~NativeChanged(World, bboxes, bbox_id, n))
    /\ Return("click", SelectorRaises(bboxes, bbox_id),
              TwoStage(World, bboxes, bbox_id, n, h, FALSE, pop))

TypeText(bbox_id, n, h) ==
    /\ toolCalls < MaxToolCalls
    /\ n = "none" \/ ~SelectorRaises(bboxes, bbox_id)
    /\ h = "none" \/ (/\ BboxById(bboxes, bbox_id) # <<>>
                      /\ ~NativeChanged(World, bboxes, bbox_id, n))
    /\ Return("type_text", SelectorRaises(bboxes, bbox_id),
              TwoStage(World, bboxes, bbox_id, n, h, FALSE, Head(ctxPages)))

BrowserSelectOption(bbox_id, n, h) ==
    /\ toolCalls < MaxToolCalls
    /\ n = "none" \/ ~SelectorRaises(bboxes, bbox_id)
    /\ h = "none" \/ (/\ ~SelectorRaises(bboxes, bbox_id)
                      /\ ~NativeChanged(World, bboxes, bbox_id, n))
    /\ Return("browser_select_option", SelectorRaises(bboxes, bbox_id),
              TwoStage(World, bboxes, bbox_id, n, h, TRUE, Head(ctxPages)))

Scroll(target, directionOk, reaction) ==
    /\ toolCalls < MaxToolCalls
    /\ \/ reaction = "none"
       \/ /\ directionOk /\ target.kind # "other"
          /\ target.kind = "element" => ~SelectorRaises(bboxes, target.id)
    /\ Return("scroll",
              target.kind = "element" /\ SelectorRaises(bboxes, target.id),
              ScrollOut(World, bboxes, target, directionOk, reaction))

Refresh(reaction) ==
    /\ toolCalls < MaxToolCalls
    /\ Return("refresh", FALSE, OneStage(World, FALSE, reaction))

ExtractPageContent(reaction) ==
    /\ toolCalls < MaxToolCalls
    /\ Return("extract_page_content", FALSE, ReadOnly(World, reaction))

GoBack(reaction) ==
    /\ toolCalls < MaxToolCalls
    /\ Return("go_back", FALSE, OneStage(World, FALSE, reaction))

BrowserGoto(reaction) ==
    /\ toolCalls < MaxToolCalls
    /\ Return("browser_goto", FALSE, OneStage(World, FALSE, reaction))

GoForward(reaction) ==
    /\ toolCalls < MaxToolCalls
    /\ Return("go_forward", FALSE, OneStage(World, FALSE, reaction))

Hover(bbox_id, reaction) ==
    /\ toolCalls < MaxToolCalls
    /\ reaction = "none" \/ ~SelectorRaises(bboxes, bbox_id)
    /\ Return("hover", SelectorRaises(bboxes, bbox_id),
              OneStage(World, SelectorRaises(bboxes, bbox_id), reaction))

PressKey(reaction) ==
    /\ toolCalls < MaxToolCalls
    /\ Return("press_key", FALSE, OneStage(World, FALSE, reaction))

Drag(start_bbox_id, end_bbox_id, reaction) ==
    /\ toolCalls < MaxToolCalls
    /\ \/ reaction = "none"
       \/ ~(SelectorRaises(bboxes, start_bbox_id)
              \/ SelectorRaises(bboxes, end_bbox_id))
    /\ Return("drag",
              SelectorRaises(bboxes, start_bbox_id)
                  \/ SelectorRaises(bboxes, end_bbox_id),
              OneStage(World,
                       SelectorRaises(bboxes, start_bbox_id)
                           \/ SelectorRaises(bboxes, end_bbox_id),
                       reaction))

WaitFor(time, bbox_id, state, reaction) ==
    /\ toolCalls < MaxToolCalls
    /\ reaction = "none" \/ WaitedMs(World, bboxes, time, bbox_id, state) > 0
    /\ ReturnArg("wait_for",
                 time = <<>> /\ bbox_id # <<>> /\ SelectorRaises(bboxes, bbox_id[1]),
                 time, reaction = "raise",
                 WaitedMs(World, bboxes, time, bbox_id, state),
                 WaitForOut(World, bboxes, time, bbox_id, state, reaction))

ListTabs ==
    /\ toolCalls < MaxToolCalls
    /\ Return("list_tabs", FALSE, ReadOnly(World, "none"))

SwitchTab(tab_index, reaction) ==
    /\ toolCalls < MaxToolCalls
    /\ reaction = "none" \/ (0 <= tab_index /\ tab_index < Len(ctxPages))
    /\ ReturnArg("switch_tab", FALSE, <<tab_index>>, reaction = "raise", 0,
                 SwitchTabOut(World, tab_index, reaction))

OpenNewTab(url, reaction) ==
    /\ toolCalls < MaxToolCalls
    /\ pagesMade < NumPages
    /\ Return("open_new_tab", FALSE, OpenNewTabOut(World, url, reaction))

CloseTab(tab_index, reaction) ==
    /\ toolCalls < MaxToolCalls
    /\ ReturnArg("close_tab", FALSE, tab_index, reaction = "raise", 0,
                 CloseTabOut(World, tab_index, reaction))

TakeNote ==
    /\ toolCalls < MaxToolCalls
    /\ Return("take_note", FALSE, Out(World, "ok", FALSE, FALSE))

NextTools ==
    \/ \E bx \in BoxLists, f \in ObserveFailures : Observe(bx, f)
    \/ \E bx \in BoxLists, f \in ObserveFailures : SummarizerObserve(bx, f)
    \/ \E b \in BoxIds, n \in PageReactions, h \in PageReactions,
          pop \in PageIds : Click(b, n, h, pop)
    \/ \E b \in BoxIds, n \in PlainReactions, h \in PlainReactions : TypeText(b, n, h)
    \/ \E b \in BoxIds, n \in PlainReactions, h \in PlainReactions :
          BrowserSelectOption(b, n, h)
    \/ \E a \in ScrollArgs, r \in PlainReactions : Scroll(a[1], a[2], r)
    \/ \E r \in PlainReactions : Refresh(r)
    \/ \E r \in {"none", "raise"} : ExtractPageContent(r)
    \/ \E r \in PlainReactions : GoBack(r)
    \/ \E r \in PlainReactions : BrowserGoto(r)
    \/ \E r \in PlainReactions : GoForward(r)
    \/ \E b \in BoxIds, r \in PlainReactions : Hover(b, r)
    \/ \E r \in PlainReactions : PressKey(r)
    \/ \E d \in DragPairs, r \in PlainReactions : Drag(d[1], d[2], r)
    \/ \E a \in WaitArgs, r \in {"none", "raise"} : WaitFor(a[1], a[2], a[3], r)
    \/ ListTabs
    \/ \E i \in TabIndexes, r \in {"none", "raise"} : SwitchTab(i, r)
    \/ \E u \in Optional({"example.com"}), r \in {"none", "raise"} : OpenNewTab(u, r)
    \/ \E i \in Optional(TabIndexes), r \in {"none", "raise"} : CloseTab(i, r)
    \/ TakeNote

\* the cap on live agents plays no part in a tool call
InitTools == Init /\ maxInstances = DEFAULT_MAX_INSTANCES

SpecTools == InitTools /\ [][NextTools]_vars

\* ================================== the action node: ToolNode(self.all_tools)
\* The graph runs its nodes with ainvoke, and ToolNode awaits
\* asyncio.gather over the tool calls of the last assistant message: one
\* task per call, created in the order of the calls, all running on the one
\* state manager of the agent.  One action below is the code a tool runs
\* between two awaits; the driver calls return.  The calls are those of the
\* tab tools.

TabToolCalls ==
    {[name |-> "switch_tab", arg |-> <<i>>] : i \in TabIndexes}
        \cup {[name |-> "open_new_tab", arg |-> <<>>]}
        \cup {[name |-> "close_tab", arg |-> a] : a \in Optional(TabIndexes)}
ToolCallLists == UNION {[1..n -> TabToolCalls] : n \in 1..MaxCalls}

NoLocal == [page |-> 0, idx |-> 0]
CallsNamed(calls, name) == {k \in 1..Len(calls) : calls[k].name = name}

\* the tasks that began and have not returned
InProgress == {k \in 1..Len(tnPc) : tnPc[k] \notin {"created", "done"}}
\* the event loop starts the tasks of one gather in the order it was given them
MayStart(k) ==
    /\ k \in 1..Len(tnPc)
    /\ tnPc[k] = "created"
    /\ \A j \in 1..(k - 1) : tnPc[j] # "created"
At(k, name, pos) ==
    /\ k \in 1..Len(tnPc)
    /\ tnCalls[k].name = name
    /\ tnPc[k] = pos

\* the task of call k returns a string
TaskReturns(k, out) ==
    /\ tnPc' = [tnPc EXCEPT ![k] = "done"]
    /\ tnOut' = [tnOut EXCEPT ![k] = out]

\* node "action": ToolNode makes one task per tool call and gathers them
ToolNodeInvoke(calls) ==
    /\ \A k \in 1..Len(tnPc) : tnPc[k] = "done"
    /\ toolCalls + Len(calls) <= MaxToolCalls
    /\ pagesMade + Cardinality(CallsNamed(calls, "open_new_tab")) <= NumPages
    /\ tnCalls' = calls
    /\ tnPc' = [k \in 1..Len(calls) |-> "created"]
    /\ tnLocal' = [k \in 1..Len(calls) |-> NoLocal]
    /\ tnOut' = [k \in 1..Len(calls) |-> "pending"]
    /\ toolCalls' = toolCalls + Len(calls)
    /\ UNCHANGED <<ctxPages, pageVer, pagesMade, cur, bboxes, actionCount, last,
                   obsBoxes, lifecycleVars, loopVars, chatVars, otherVars>>

\* switch_tab up to `await target_page.bring_to_front()`
SwitchTabBegin(k) ==
    /\ MayStart(k) /\ tnCalls[k].name = "switch_tab"
    /\ LET tab_index == tnCalls[k].arg[1]
       IN  IF 0 <= tab_index /\ tab_index < Len(ctxPages)
           THEN /\ tnPc' = [tnPc EXCEPT ![k] = "bring_to_front"]
                /\ tnLocal' = [tnLocal EXCEPT
                                  ![k] = [page |-> ctxPages[tab_index + 1],
                                          idx |-> tab_index]]
                /\ UNCHANGED tnOut
           ELSE TaskReturns(k, "error") /\ UNCHANGED tnLocal
    /\ UNCHANGED <<tnCalls, smVars, lifecycleVars, loopVars, chatVars, otherVars>>

\* switch_tab from the return of bring_to_front and title: they raise on a
\* page that was closed in between
SwitchTabEnd(k) ==
    /\ At(k, "switch_tab", "bring_to_front")
    /\ IF tnLocal[k].page \in SeqRange(ctxPages)
       THEN /\ actionCount' = actionCount + 1
            /\ cur' = tnLocal[k].idx
            /\ TaskReturns(k, "ok")
       ELSE /\ TaskReturns(k, "error")
            /\ UNCHANGED <<actionCount, cur>>
    /\ UNCHANGED <<tnCalls, tnLocal, ctxPages, pageVer, pagesMade, bboxes, last,
                   toolCalls, obsBoxes, lifecycleVars, loopVars, chatVars, otherVars>>

\* open_new_tab up to `await context.new_page()`
OpenNewTabBegin(k) ==
    /\ MayStart(k) /\ tnCalls[k].name = "open_new_tab"
    /\ tnPc' = [tnPc EXCEPT ![k] = "new_page"]
    /\ UNCHANGED <<tnCalls, tnLocal, tnOut, smVars, lifecycleVars, loopVars,
                   chatVars, otherVars>>

\* new_page returns the page the context opened; `await
\* new_page.bring_to_front()`
OpenNewTabCreated(k) ==
    /\ At(k, "open_new_tab", "new_page")
    /\ ctxPages' = Append(ctxPages, pagesMade + 1)
    /\ pagesMade' = pagesMade + 1
    /\ tnLocal' = [tnLocal EXCEPT ![k] = [page |-> pagesMade + 1, idx |-> 0]]
    /\ tnPc' = [tnPc EXCEPT ![k] = "bring_to_front"]
    /\ UNCHANGED <<tnCalls, tnOut, pageVer, cur, bboxes, actionCount, last,
                   toolCalls, obsBoxes, lifecycleVars, loopVars, chatVars, otherVars>>

\* open_new_tab from the return of bring_to_front
OpenNewTabEnd(k) ==
    /\ At(k, "open_new_tab", "bring_to_front")
    /\ IF tnLocal[k].page \in SeqRange(ctxPages)
       THEN /\ cur' = Len(ctxPages) - 1
            /\ actionCount' = actionCount + 1
            /\ TaskReturns(k, "ok")
       ELSE /\ TaskReturns(k, "error")
            /\ UNCHANGED <<actionCount, cur>>
    /\ UNCHANGED <<tnCalls, tnLocal, ctxPages, pageVer, pagesMade, bboxes, last,
                   toolCalls, obsBoxes, lifecycleVars, loopVars, chatVars, otherVars>>

\* close_tab up to `await page_to_close.title()`
CloseTabBegin(k) ==
    /\ MayStart(k) /\ tnCalls[k].name = "close_tab"
    /\ LET tab_index == IF tnCalls[k].arg = <<>> THEN cur
                        ELSE tnCalls[k].arg[1]
       IN  IF /\ Len(ctxPages) > 1
              /\ 0 <= tab_index /\ tab_index < Len(ctxPages)
           THEN /\ tnPc' = [tnPc EXCEPT ![k] = "title"]
                /\ tnLocal' = [tnLocal EXCEPT
                                  ![k] = [page |-> ctxPages[tab_index + 1],
                                          idx |-> tab_index]]
                /\ UNCHANGED tnOut
           ELSE TaskReturns(k, "error") /\ UNCHANGED tnLocal
    /\ UNCHANGED <<tnCalls, smVars, lifecycleVars, loopVars, chatVars, otherVars>>

\* title returned (it raises on a page closed in between); `await
\* page_to_close.close()`
CloseTabClosed(k) ==
    /\ At(k, "close_tab", "title")
    /\ IF tnLocal[k].page \in SeqRange(ctxPages)
       THEN /\ ctxPages' = RemoveAt(ctxPages, IndexOf(ctxPages, tnLocal[k].page))
            /\ tnPc' = [tnPc EXCEPT ![k] = "closed"]
            /\ UNCHANGED tnOut
       ELSE /\ TaskReturns(k, "error")
            /\ UNCHANGED ctxPages
    /\ UNCHANGED <<tnCalls, tnLocal, pageVer, pagesMade, cur, bboxes,
                   actionCount, last, toolCalls, obsBoxes, lifecycleVars,
                   loopVars, chatVars, otherVars>>

\* close_tab from the return of close
CloseTabEnd(k) ==
    /\ At(k, "close_tab", "closed")
    /\ cur' = IF tnLocal[k].idx = cur /\ Len(ctxPages) > 0 THEN 0 ELSE cur
    /\ actionCount' = actionCount + 1
    /\ TaskReturns(k, "ok")
    /\ UNCHANGED <<tnCalls, tnLocal, ctxPages, pageVer, pagesMade, bboxes, last,
                   toolCalls, obsBoxes, lifecycleVars, loopVars, chatVars, otherVars>>

NextToolNode ==
    \/ \E calls \in ToolCallLists : ToolNodeInvoke(calls)
    \/ \E k \in 1..MaxCalls : SwitchTabBegin(k)
    \/ \E k \in 1..MaxCalls : SwitchTabEnd(k)
    \/ \E k \in 1..MaxCalls : OpenNewTabBegin(k)
    \/ \E k \in 1..MaxCalls : OpenNewTabCreated(k)
    \/ \E k \in 1..MaxCalls : OpenNewTabEnd(k)
    \/ \E k \in 1..MaxCalls : CloseTabBegin(k)
    \/ \E k \in 1..MaxCalls : CloseTabClosed(k)
    \/ \E k \in 1..MaxCalls : CloseTabEnd(k)

SpecToolNode == InitTools /\ [][NextToolNode]_vars

\* ============================================================ the group chat
\* GroupChatClient and its callers.  The client is not part of the source
\* tree: post and history are modelled after the specification (post appends
\* the message to the room's list in the store, then trims the list to the
\* last maximum number of messages; history returns the most recent `limit`
\* messages), a call on a store that cannot be reached raises, and a store
\* that was reached when a post began stays reachable until its trim.  The
\* callers are ainvoke, _post_intro_message, _build_agent_messages and the
\* post_groupchat tool of the agent Runner, and, for the room alone, any
\* agent that posts.

\* ------------------------------------------------- program constants (chat)
HISTORY_LIMIT == 50

\* ---------------------------------------------------------------- pure pieces

\* ltrim without effect
TrimNothing(list, max) == list

\* the trim of post: the last `max` messages stay
Trim(list, max) ==
    IF Len(list) > max THEN SubSeq(list, Len(list) - max + 1, Len(list))
    ELSE list

\* history(room, limit)
History(list, limit) ==
    IF Len(list) > limit THEN SubSeq(list, Len(list) - limit + 1, Len(list))
    ELSE list

\* without the try: the exception leaves the run
PropagateChatError(next) == "raised"

\* `except Exception: pass` around the chat calls of ainvoke,
\* _post_intro_message and _build_agent_messages: the run goes on at `next`
SwallowChatError(next) == next

Posting == {"intro", "start", "tool"}
\* the posts between their append and their trim
InFlight == {p \in Posters : csub[p] = "trim"}

\* a post of agent p ended: where the run of Runner goes on, and what its
\* post_groupchat tool returns
PostEnded(p, ok) ==
    /\ csub' = [csub EXCEPT ![p] = "none"]
    /\ cpc' = IF p # Runner \/ cpc \notin Posting THEN cpc
              ELSE IF cpc = "intro"
              THEN IF ok THEN "start" ELSE SwallowChatError("start")
              ELSE IF cpc = "start"
              THEN IF ok THEN "build" ELSE SwallowChatError("build")
              ELSE "build"
    /\ ctool' = IF p # Runner \/ cpc # "tool" THEN ctool
                ELSE IF ok THEN "posted" ELSE "error"

\* -------------------------------------------------------------------- actions

\* ainvoke: `await self.group_client.connect()`
ChatAinvoke ==
    /\ cpc = "idle"
    /\ \A p \in Posters : cposts[p] = 0
    /\ cpc' = IF storeUp THEN "intro" ELSE SwallowChatError("build")
    /\ UNCHANGED <<room, roomMax, storeUp, csub, cposts, cturns, cprompt, ctool,
                   lifecycleVars, loopVars, smVars, tnVars, otherVars>>

\* the run posts: _post_intro_message, the "Starting task" post of ainvoke,
\* the post of the post_groupchat tool; each begins by reaching the store
PostBegin ==
    /\ cpc \in Posting /\ csub[Runner] = "none"
    /\ IF storeUp
       THEN /\ csub' = [csub EXCEPT ![Runner] = "append"]
            /\ UNCHANGED <<cpc, ctool>>
       ELSE PostEnded(Runner, FALSE)
    /\ UNCHANGED <<room, roomMax, storeUp, cposts, cturns, cprompt,
                   lifecycleVars, loopVars, smVars, tnVars, otherVars>>

\* an agent of the room posts
RoomPost(p) ==
    /\ cpc = "idle" /\ csub[p] = "none"
    /\ cposts[p] < MaxPosts
    /\ csub' = [csub EXCEPT ![p] = "append"]
    /\ UNCHANGED <<room, roomMax, storeUp, cpc, cposts, cturns, cprompt, ctool,
                   lifecycleVars, loopVars, smVars, tnVars, otherVars>>

\* post: the append
PostAppend(p) ==
    /\ csub[p] = "append"
    /\ room' = Append(room, ChatMessage(p, cposts[p] + 1))
    /\ cposts' = [cposts EXCEPT ![p] = @ + 1]
    /\ csub' = [csub EXCEPT ![p] = "trim"]
    /\ UNCHANGED <<roomMax, storeUp, cpc, cturns, cprompt, ctool,
                   lifecycleVars, loopVars, smVars, tnVars, otherVars>>

\* post: the trim
PostTrim(p) ==
    /\ csub[p] = "trim"
    /\ room' = Trim(room, roomMax)
    /\ PostEnded(p, TRUE)
    /\ UNCHANGED <<roomMax, storeUp, cposts, cturns, cprompt,
                   lifecycleVars, loopVars, smVars, tnVars, otherVars>>

\* _build_agent_messages: connect, history(limit=50), format_history, and the
\* system message with the chat block
BuildAgentMessages ==
    /\ cpc = "build"
    /\ cpc' = IF storeUp THEN "llm" ELSE SwallowChatError("llm")
    /\ cprompt' = IF storeUp THEN <<Len(History(room, HISTORY_LIMIT))>>
                  ELSE <<>>
    /\ UNCHANGED <<room, roomMax, storeUp, csub, cposts, cturns, ctool,
                   lifecycleVars, loopVars, smVars, tnVars, otherVars>>

\* call_agent: the LLM answers, with a post_groupchat call or without one
ChatCallAgent(post) ==
    /\ cpc = "llm"
    /\ post => cturns < MaxChatTurns
    /\ cturns' = IF post THEN cturns + 1 ELSE cturns
    /\ cpc' = IF post THEN "tool" ELSE "done"
    /\ UNCHANGED <<room, roomMax, storeUp, csub, cposts, cprompt, ctool,
                   lifecycleVars, loopVars, smVars, tnVars, otherVars>>

\* the store becomes unreachable, while no post is under way
StoreFails ==
    /\ storeUp
    /\ \A p \in Posters : csub[p] = "none"
    /\ storeUp' = FALSE
    /\ UNCHANGED <<room, roomMax, cpc, csub, cposts, cturns, cprompt, ctool,
                   lifecycleVars, loopVars, smVars, tnVars, otherVars>>

StoreRecovers ==
    /\ ~storeUp
    /\ storeUp' = TRUE
    /\ UNCHANGED <<room, roomMax, cpc, csub, cposts, cturns, cprompt, ctool,
                   lifecycleVars, loopVars, smVars, tnVars, otherVars>>

\* the cap on live agents plays no part in the chat; the room is a new one
\* with a configured maximum, or one of the default maximum that earlier
\* posts filled
InitChat ==
    /\ persistentMessages = <<>>
    /\ InitProcess /\ maxInstances = DEFAULT_MAX_INSTANCES
    /\ roomMax \in {SmallRoomMax, GROUPCHAT_MAX_MESSAGES}
    /\ room = IF roomMax = SmallRoomMax THEN <<>> ELSE FullRoom(roomMax)

\* one run of one agent, on a store that comes and goes
NextChat ==
    \/ ChatAinvoke
    \/ PostBegin
    \/ PostAppend(Runner)
    \/ PostTrim(Runner)
    \/ BuildAgentMessages
    \/ \E post \in BOOLEAN : ChatCallAgent(post)
    \/ StoreFails
    \/ StoreRecovers

SpecChat == InitChat /\ [][NextChat]_vars

\* the agents of one room, posting at the same time
NextRoom ==
    \/ \E p \in Posters : RoomPost(p)
    \/ \E p \in Posters : PostAppend(p)
    \/ \E p \in Posters : PostTrim(p)

SpecRoom == InitChat /\ [][NextRoom]_vars

\* ============================================================ agent names
\* utils.generate_agent_name and the process-global registry of the names
\* it assigned.  The function has no await: one call is one step, whoever
\* the caller is (WebVoyagerV2.__init__, Agent.__init__, a subtask of
\* delegate).  petname.generate and secrets.token_hex draw at random: any
\* value of their range.

\* ------------------------------------------------ program constants (names)
PETNAME_ATTEMPTS == 100

PetNames == {<<"pet", i>> : i \in 1..NumPetNames}
HexNames == {<<"agent", i>> : i \in 1..NumHex}

\* what the petname.generate calls of one generate_agent_name call return:
\* one name k - 1 times, then another (or the same) name
Draws ==
    {[i \in 1..PETNAME_ATTEMPTS |-> IF i < k THEN a ELSE b] :
        a \in PetNames, b \in PetNames, k \in {1, 2, PETNAME_ATTEMPTS + 1}}

\* `for _ in range(100)`: the first candidate that is not assigned yet, or
\* the fallback
RECURSIVE Candidate(_, _, _, _)
Candidate(draws, i, assigned, fallback) ==
    IF i > Len(draws) THEN fallback
    ELSE IF draws[i] \notin assigned THEN draws[i]
    ELSE Candidate(draws, i + 1, assigned, fallback)

GenerateAgentName(draws, fallback) ==
    /\ Len(returnedNames) < MaxNameCalls
    /\ LET name == Candidate(draws, 1, assignedNames, fallback)
       IN  /\ assignedNames' = assignedNames \cup {name}
           /\ returnedNames' = Append(returnedNames, name)
    /\ UNCHANGED <<lifecycleVars, loopVars, smVars, tnVars, chatVars, sumVars,
                   blindVars>>

NextNames ==
    \E draws \in Draws, fallback \in HexNames :
        GenerateAgentName(draws, fallback)

SpecNames == Init /\ [][NextNames]_vars

\* ================================================= the conversation summarizer
\* delegate's call of _summarize_conversation_history and the briefing of
\* the clones with its result.  The summarizer awaits once, at
\* summarizer.ainvoke.

\* ------------------------------------------- program constants (summarizer)
NO_HISTORY == "No prior conversation history."
NO_MEANINGFUL_HISTORY == "No meaningful conversation history to summarize."

\* f"Parent agent {parent_name} was working on tasks (summary unavailable)."
SummaryUnavailable(parent_name) ==
    "Parent agent " \o parent_name
        \o " was working on tasks (summary unavailable)."

\* the current_messages a history is made of, and the histories
HistoryMessages ==
    {SystemMessage("You are a web agent"),
     HumanMessage("What is the capital of France?"),
     AIMessage("", <<>>),
     AIMessage("The capital is Paris", <<>>),
     AIMessage("", <<1>>)}
Histories == UNION {[1..n -> HistoryMessages] : n \in 0..MaxHistory}
ParentNames == {"parent-agent", "brave-otter"}
\* what the summarizer LLM writes
SummaryTexts == {"The parent looked up the capital of France."}

\* the loop over messages[-200:]: the messages that give a condensed line
GivesLine(m) ==
    \/ m.role \in {"tool", "human"}
    \/ m.role = "ai" /\ (Len(m.tool_calls) > 0 \/ m.content # "")
\* `if not condensed_lines`, the line of the first user request included
NoCondensedLines(current_messages) ==
    /\ ~\E i \in 1..Len(current_messages) :
            current_messages[i].role = "human" /\ current_messages[i].content # ""
    /\ SelectSeq(current_messages, GivesLine) = <<>>

SummaryReturned(value) == [kind |-> "returned", value |-> value]

\* without the try of _summarize_conversation_history
SummarizerFailureEscapes(parent_name) == [kind |-> "raised", value |-> ""]

\* _summarize_conversation_history: `except Exception as e`
SummarizerFailure(parent_name) == SummaryReturned(SummaryUnavailable(parent_name))

\* delegate: try: conversation_summary = await _summarize_...; except
\* Exception: the same text
ConversationSummary(res, parent_name) ==
    IF res.kind = "raised" THEN SummaryUnavailable(parent_name) ELSE res.value

\* the summarizer ended with `res`: delegate has its conversation_summary
Summarized(res, parent_name) ==
    /\ sres' = res
    /\ ssummary' = ConversationSummary(res, parent_name)
    /\ spc' = "summarized"

\* delegate, past its argument and depth tests, calls the summarizer, which
\* runs up to its return or to `await summarizer.ainvoke(...)`;
\* init_chat_model raises or not
DelegateSummarize(current_messages, parent_name, tasks, initOk) ==
    /\ spc = "idle"
    /\ ~EmptyTasks(tasks)
    /\ shist' = current_messages /\ sparent' = parent_name /\ stasks' = tasks
    /\ IF current_messages = <<>>
       THEN Summarized(SummaryReturned(NO_HISTORY), parent_name)
            /\ UNCHANGED <<sfailed, sllm>>
       ELSE IF NoCondensedLines(current_messages)
       THEN Summarized(SummaryReturned(NO_MEANINGFUL_HISTORY), parent_name)
            /\ UNCHANGED <<sfailed, sllm>>
       ELSE IF ~initOk
       THEN Summarized(SummarizerFailure(parent_name), parent_name)
            /\ sfailed' = TRUE /\ UNCHANGED sllm
       ELSE /\ spc' = "llm"
            /\ sllm' = sllm + 1
            /\ UNCHANGED <<sres, sfailed, ssummary>>
    /\ UNCHANGED <<sbriefs, lifecycleVars, loopVars, smVars, tnVars, chatVars,
                   nameVars, blindVars>>

\* summarizer.ainvoke returns the summary, or raises
SummarizerAnswers(ok, text) ==
    /\ spc = "llm"
    /\ IF ok THEN Summarized(SummaryReturned(text), sparent) /\ UNCHANGED sfailed
       ELSE Summarized(SummarizerFailure(sparent), sparent) /\ sfailed' = TRUE
    /\ UNCHANGED <<shist, sparent, stasks, sllm, sbriefs, lifecycleVars,
                   loopVars, smVars, tnVars, chatVars, nameVars, blindVars>>

\* run_single_task of the next task: clone_context_message, with
\* `PARENT CONTEXT: {conversation_summary}`, handed to clone.ainvoke
BriefClone ==
    /\ spc = "summarized"
    /\ Len(sbriefs) < Len(stasks)
    /\ sbriefs' = Append(sbriefs, ssummary)
    /\ UNCHANGED <<spc, shist, sparent, stasks, sres, sfailed, sllm, ssummary,
                   lifecycleVars, loopVars, smVars, tnVars, chatVars, nameVars,
                   blindVars>>

NextSummary ==
    \/ \E current_messages \in Histories, parent_name \in ParentNames,
          tasks \in TaskLists, initOk \in BOOLEAN :
            DelegateSummarize(current_messages, parent_name, tasks, initOk)
    \/ \E ok \in BOOLEAN, text \in SummaryTexts : SummarizerAnswers(ok, text)
    \/ BriefClone

\* the cap on live agents plays no part in the summarizer call
InitSummary == Init /\ maxInstances = DEFAULT_MAX_INSTANCES

SpecSummary == InitSummary /\ [][NextSummary]_vars

\* ============================================================ the BlindAgent
\* BlindAgent.ainvoke / astream run a prebuilt ReAct agent and turn its
\* failure into a value; _extract_final_answer picks the answer out of the
\* final state.  One step of the ReAct agent adds one message, which the
\* streaming entry point yields as one chunk.

\* ------------------------------------------------ program constants (blind)
TASK_COMPLETED == "Task completed."
PLANNING_PREFIX == "I need to"
ERROR_PREFIX == "Error processing request: "
STREAMING_ERROR_PREFIX == "Streaming error: "

\* what the ReAct agent adds to the messages in one step
BlindMessages ==
    {AIMessage("", <<1>>),
     AIMessage(" ", <<>>),
     AIMessage("I need to search first", <<1>>),
     AIMessage(" I need to look", <<>>),
     AIMessage("Paris", <<>>),
     AIMessage(" It costs $29.99 ", <<>>),
     ToolMessage("Navigated successfully", 1)}
WorkflowErrors == {"Workflow error"}

\* normalize_chat_content, for the str content the messages here carry
NormalizeChatContent(content) == content

\* `for msg in messages`, the oldest message first
RECURSIVE BlindExtractOldest(_, _)
BlindExtractOldest(msgs, k) ==
    IF k = 0 THEN TASK_COMPLETED
    ELSE LET msg == msgs[Len(msgs) + 1 - k]
             content_text == Strip(NormalizeChatContent(msg.content))
         IN  IF /\ msg.role = "ai" /\ msg.content # ""
                /\ content_text # ""
                /\ ~StartsWith(content_text, PLANNING_PREFIX)
             THEN content_text
             ELSE BlindExtractOldest(msgs, k - 1)

\* _extract_final_answer: `for msg in reversed(messages)`, from position k
\* down
RECURSIVE BlindExtractFinalAnswer(_, _)
BlindExtractFinalAnswer(msgs, k) ==
    IF k = 0 THEN TASK_COMPLETED
    ELSE LET msg == msgs[k]
             content_text == Strip(NormalizeChatContent(msg.content))
         IN  IF /\ msg.role = "ai" /\ msg.content # ""
                /\ content_text # ""
                /\ ~StartsWith(content_text, PLANNING_PREFIX)
             THEN content_text
             ELSE BlindExtractFinalAnswer(msgs, k - 1)

\* without the try of ainvoke / astream
BlindErrorEscapes(prefix, err) == [kind |-> "raised", value |-> err]

\* `except Exception as e`: f"Error processing request: {str(e)}" returned,
\* {"error": f"Streaming error: {str(e)}"} yielded
BlindError(prefix, err) == [kind |-> "value", value |-> prefix \o err]

\* the chunk astream yields for a message the ReAct agent added
UpdateChunk(msg) ==
    [key |-> IF msg.role = "ai" THEN "agent" ELSE "tools", text |-> msg.content]
ErrorChunk(text) == [key |-> "error", text |-> text]

\* ainvoke / astream called: self.agent.ainvoke / astream starts on
\* {"messages": [HumanMessage(content=user_query)]}
BlindStart(e, user_query) ==
    /\ bpc = "idle"
    /\ bpc' = "running"
    /\ bentry' = e
    /\ bmsgs' = <<HumanMessage(user_query)>>
    /\ UNCHANGED <<byield, bret, berr, lifecycleVars, loopVars, smVars, tnVars,
                   chatVars, nameVars, sumVars>>

\* the ReAct agent adds a message; astream yields it
BlindStep(msg) ==
    /\ bpc = "running"
    /\ Len(bmsgs) <= MaxBlindSteps
    /\ bmsgs' = Append(bmsgs, msg)
    /\ byield' = IF bentry = "astream" THEN Append(byield, UpdateChunk(msg))
                 ELSE byield
    /\ UNCHANGED <<bpc, bentry, bret, berr, lifecycleVars, loopVars, smVars,
                   tnVars, chatVars, nameVars, sumVars>>

\* the ReAct agent ends: ainvoke returns _extract_final_answer(final_state),
\* the generator of astream ends
BlindFinish ==
    /\ bpc = "running"
    /\ bpc' = "done"
    /\ bret' = IF bentry = "ainvoke"
               THEN [kind |-> "value",
                     value |-> BlindExtractFinalAnswer(bmsgs, Len(bmsgs))]
               ELSE [kind |-> "ended", value |-> ""]
    /\ UNCHANGED <<bentry, bmsgs, byield, berr, lifecycleVars, loopVars, smVars,
                   tnVars, chatVars, nameVars, sumVars>>

\* the ReAct agent raises Exception(err)
BlindFail(err) ==
    /\ bpc = "running"
    /\ bpc' = "done"
    /\ berr' = err
    /\ IF bentry = "ainvoke"
       THEN /\ bret' = BlindError(ERROR_PREFIX, err)
            /\ UNCHANGED byield
       ELSE LET res == BlindError(STREAMING_ERROR_PREFIX, err)
            IN  IF res.kind = "raised"
                THEN bret' = res /\ UNCHANGED byield
                ELSE /\ byield' = Append(byield, ErrorChunk(res.value))
                     /\ bret' = [kind |-> "ended", value |-> ""]
    /\ UNCHANGED <<bentry, bmsgs, lifecycleVars, loopVars, smVars, tnVars,
                   chatVars, nameVars, sumVars>>

NextBlind ==
    \/ \E e \in EntryPoints, user_query \in Queries : BlindStart(e, user_query)
    \/ \E msg \in BlindMessages : BlindStep(msg)
    \/ BlindFinish
    \/ \E err \in WorkflowErrors : BlindFail(err)

\* the cap on live agents plays no part in a BlindAgent's run
InitBlind == Init /\ maxInstances = DEFAULT_MAX_INSTANCES

SpecBlind == InitBlind /\ [][NextBlind]_vars

\* ================================================================ claims

Entries(a) == dresult[a].entries
CountStatus(a, st) ==
    Cardinality({i \in 1..Len(Entries(a)) : Entries(a)[i].status = st})
SlotsOf(a) == SeqRange(dslots[a])
LiveClone(t) == created[t] /\ pc[t] = "running"

\* C1: under every interleaving of agent creations and disposals the global
\* live-agent counter never exceeds the configured maximum of agents.
C1_CountWithinCap == count <= maxInstances

\* C2: with the cap at SmallCap (2) and only the root agent alive, a delegate
\* call of the root with NumSlots (3) tasks, none of which fails, returns
\* tasks - (cap - 1) denied entries and cap - 1 ok entries.
C2_CapacityDenial ==
    (/\ maxInstances = SmallCap
     /\ dpc[Root] = "returned"
     /\ dresult[Root].kind = "array"
     /\ Len(dtasks[Root]) = NumSlots
     /\ dbefore[Root] = 1
     /\ \A t \in SlotsOf(Root) :
           tpath[t] \in {"run_ok", "denied_check", "denied_create"})
    => /\ CountStatus(Root, "denied") = Len(dtasks[Root]) - (maxInstances - 1)
       /\ CountStatus(Root, "ok") = maxInstances - 1

C4_RunDestroysAgent ==
    pc[Root] = "ended" => (count = runBefore /\ ~browserOpen)

\* C5: a dispose call on an agent that was disposed before leaves the global
\* live-agent counter unchanged.
C5_DisposeIdempotent ==
    [][\A h \in Handles :
          (hdisp[h] >= 1 /\ hdisp'[h] = hdisp[h] + 1) => count' = count]_vars

C7_FailedPreconditionSpawnsNothing ==
    [][\A a \in Agents :
          (/\ dpc[a] = "none"
           /\ dpc'[a] # "none"
           /\ (Len(dtasks'[a]) = 0 \/ depth[a] >= MAX_CLONE_DEPTH))
          => /\ dpc'[a] = "returned"
             /\ dresult'[a].kind = "error"
             /\ Len(dtasks'[a]) > 0 => dresult'[a].error = "Maximum clone depth"
             /\ dslots'[a] = <<>>
             /\ count' = count
             /\ openCtx' = openCtx
             /\ pc' = pc
             /\ created' = created]_vars

\* C7 witness: a clone at the maximum depth called delegate with tasks and got
\* the depth error.
C7_Witness ==
    \E a \in Agents :
        /\ dpc[a] = "returned"
        /\ Len(dtasks[a]) > 0
        /\ depth[a] = MAX_CLONE_DEPTH
        /\ dresult[a] = ErrorObject("Maximum clone depth")

C9_OneEntryPerTask ==
    \A a \in Agents :
        (dpc[a] = "returned" /\ Len(dtasks[a]) > 0 /\ depth[a] < MAX_CLONE_DEPTH)
        => /\ dresult[a].kind = "array"
           /\ Len(Entries(a)) = Len(dtasks[a])
           /\ \A i \in 1..Len(dtasks[a]) :
                 /\ Entries(a)[i].task = dtasks[a][i]
                 /\ Entries(a)[i].status \in {"ok", "denied", "error"}

\* C9 witness: a call with three tasks returned entries of different statuses,
\* the first task having failed and the last having succeeded.
C9_Witness ==
    \E a \in Agents :
        /\ dpc[a] = "returned"
        /\ Len(dtasks[a]) = 3
        /\ dresult[a].kind = "array"
        /\ Entries(a)[1].status = "error"
        /\ Entries(a)[2].status = "denied"
        /\ Entries(a)[3].status = "ok"

\* C10: a delegate call that ran subtasks returns an array, never raises, and
\* each entry reports what happened to its own subtask only: ok exactly when
\* that subtask's clone ran and returned, denied exactly when its creation was
\* refused by the cap or raised a RuntimeError, error exactly when it failed
\* otherwise.
C10_FailuresStayLocal ==
    \A a \in Agents : (dpc[a] = "returned" /\ dslots[a] # <<>>) =>
        /\ dresult[a].kind = "array"
        /\ Len(Entries(a)) = Len(dslots[a])
        /\ \A i \in 1..Len(dslots[a]) :
              LET t == dslots[a][i] st == Entries(a)[i].status IN
              /\ st = "ok" <=> tpath[t] = "run_ok"
              /\ st = "denied" <=> tpath[t] \in {"denied_check", "denied_create",
                                                 "setup_runtime_error"}
              /\ st = "error" <=> tpath[t] \in {"no_browser", "ctx_error",
                                                "setup_error", "run_error"}

\* C10 witness: in one returned call a clone's run raised, another subtask's
\* context could not be created, and a third subtask succeeded.
C10_Witness ==
    \E a \in Agents :
        /\ dpc[a] = "returned"
        /\ dresult[a].kind = "array"
        /\ \E t, u, v \in SlotsOf(a) :
              /\ tpath[t] = "run_error"
              /\ tpath[u] = "ctx_error"
              /\ tpath[v] = "run_ok"
              /\ ret[v].status = "ok"

\* ------------------------------------------------------------------- C11
\* C11: in state["messages"], every assistant message carrying K tool calls
\* is followed at once by exactly K tool messages whose tool_call_ids are the
\* ids of the calls, in order; any other message (a summary, the next
\* assistant message) comes after them.  Until ToolNode has run, such a
\* message is the last one and the graph is at "action" (or was stopped).
PairedAt(msgs, i) ==
    LET K == Len(msgs[i].tool_calls)
    IN  IF i = Len(msgs)
        THEN gpc \in {"action", "ended"}
        ELSE /\ i + K <= Len(msgs)
             /\ \A j \in 1..K :
                   /\ msgs[i + j].role = "tool"
                   /\ msgs[i + j].tool_call_id = msgs[i].tool_calls[j]
             /\ i + K < Len(msgs) => msgs[i + K + 1].role # "tool"
C11_ToolResultsFollowCalls ==
    \A i \in 1..Len(messages) : HasToolCalls(messages[i]) => PairedAt(messages, i)
C11_Witness ==
    \E i \in 1..Len(messages) :
        /\ HasToolCalls(messages[i])
        /\ Len(messages[i].tool_calls) >= 2
        /\ Len(messages) > i + Len(messages[i].tool_calls)
        /\ messages[i + Len(messages[i].tool_calls) + 1].role = "system"

\* ------------------------------------------------------------------- C12
\* C12: a run that ainvoke returns from ended at the first assistant message
\* of the run without tool calls, and the string returned is the content of
\* that message (with or without the final-answer marker), whatever the
\* content is and whatever stands before it in the history.
IsFinalAssistant(m) == m.role = "ai" /\ Len(m.tool_calls) = 0
C12_AnswerIsTerminatingText ==
    (gpc = "ended" /\ outcome.kind = "returned") =>
        LET m == messages[Len(messages)]
        IN  /\ IsFinalAssistant(m)
            /\ \A i \in (runStart + 1)..(Len(messages) - 1) :
                   ~IsFinalAssistant(messages[i])
            /\ outcome.value \in
                   {m.content, Strip(Replace(m.content, FINAL_MARKER))}

\* ------------------------------------------------------------------- C13
\* C13: when the graph stops because the cap on its steps is reached while
\* the assistant keeps emitting tool calls, ainvoke returns a string: the
\* text of an assistant message, or the sentinel "no specific answer was
\* provided"; it does not raise.
AssistantTexts ==
    {messages[i].content : i \in {j \in 1..Len(messages) :
                                     messages[j].role = "ai"}}
C13_CapReturnsString ==
    [][(GraphRecursionError /\ entry = "ainvoke") =>
          /\ outcome'.kind = "returned"
          /\ \/ outcome'.value \in AssistantTexts
             \/ Contains(outcome'.value, "no specific answer was provided")]_vars

\* ------------------------------------------------------------------- C14
\* C14: a run makes a bounded number of LLM calls and ends: the graph stops
\* at an assistant message without tool calls or at the cap on its steps.
C14_RunTerminates ==
    /\ [](llmCalls <= recursion_limit)
    /\ (gpc = "agent") ~> (gpc = "ended")
C14_Witness ==
    /\ gpc = "ended"
    /\ llmStuck
    /\ outcome.value = "GraphRecursionError"

\* ------------------------------------------------------------------- C15
\* C15: when the LLM call of a turn fails, ainvoke / astream hand their
\* caller a final error string; the exception does not leave them.
C15_LLMFailureSurfacesString ==
    [][CallAgentFail => outcome'.kind # "raised"]_vars

\* ------------------------------------------------------------------- C16
\* C16: a click, type_text or browser_select_option call enters the
\* human-like attempt only if the native attempt raised or left the page
\* state as it was; it returns success and increments _action_count exactly
\* when one of its attempts left the page state different from the pre-state,
\* and otherwise returns a failure string with _action_count unchanged.
TwoStageOps == {"click", "type_text", "browser_select_option"}
C16_TwoStageDiscipline ==
    last.op \in TwoStageOps =>
        /\ last.human => (last.nraised \/ ~last.ndiff)
        /\ (last.res \in Successes /\ last.inc) <=> last.diff
        /\ last.res \notin Successes => (last.res \in ErrorStrings /\ ~last.inc)

\* ------------------------------------------------------------------- C17
\* C17: a tool call never decreases _action_count, and it increments it (by
\* one) exactly when the call changed (url, content, tab count).
C17_CountTracksChange ==
    [][toolCalls' = toolCalls + 1 =>
          /\ actionCount' >= actionCount
          /\ (actionCount' = actionCount + 1) <=> last'.diff]_vars

\* ------------------------------------------------------------------- C18
\* C18: after one successful browser_goto followed by one successful
\* extract_page_content, and no other tool call, _action_count is 2.
C18_GotoThenExtractCountsTwo ==
    [][(/\ toolCalls = 1
        /\ last.op = "browser_goto" /\ last.res = "ok"
        /\ toolCalls' = 2
        /\ last'.op = "extract_page_content" /\ last'.res = "ok")
          => actionCount' = 2]_vars

\* ------------------------------------------------------------------- C19
\* C19: a tool call that names an element by an index out of range of
\* current_bboxes, or an element marked isCaptcha, returns an error string
\* and sends no interaction to the page, in the native and in the human-like
\* attempt alike.
ElementOps ==
    {"click", "type_text", "browser_select_option", "hover", "drag", "scroll",
     "wait_for"}
C19_BadElementRefused ==
    (last.op \in ElementOps /\ last.bad) =>
        (last.res \in ErrorStrings /\ ~last.sent)

\* ------------------------------------------------------------------- C20
\* C20: no tool call raises: each returns a string, in every state a
\* sequence of tool calls leads to.
C20_ToolsNeverRaise == last.res # "raised"

\* ------------------------------------------------------------------- C21
\* C21: after a click, type_text or browser_select_option call during which
\* pages were added to the context (one or several), current_page_index
\* designates the page added last, and the tab list get_tabs builds next has
\* that page, and no other, as the active tab.
C21_NewestTabBecomesActive ==
    [][(/\ toolCalls' = toolCalls + 1
        /\ last'.op \in TwoStageOps
        /\ Len(ctxPages') > Len(ctxPages))
          => /\ cur' = Len(ctxPages') - 1
             /\ ActiveTabs(World') = {Len(ctxPages') - 1}]_vars

\* ------------------------------------------------------------------- C22
\* C22: after each open_new_tab, close_tab, switch_tab and list_tabs call
\* of a sequence of tool calls, get_tabs returns a tab list (for an
\* Observation or for list_tabs) in which exactly one tab has
\* is_active = true.
TabOps == {"open_new_tab", "close_tab", "switch_tab", "list_tabs"}
C22_ExactlyOneActiveTab ==
    last.op \in TabOps =>
        /\ ~GetTabs(World).raised
        /\ Cardinality(ActiveTabs(World)) = 1

C25_WaitForBounded ==
    [][(toolCalls' = toolCalls + 1 /\ last'.op = "wait_for") =>
          /\ last'.waited <= WAIT_MAX_SECONDS * 1000
          /\ last'.arg = <<>> => last'.waited <= WAIT_SELECTOR_TIMEOUT_MS
          /\ (last'.arg # <<>> /\ last'.arg[1] > WAIT_MAX_SECONDS) =>
                /\ last'.res \in ErrorStrings
                /\ last'.waited = 0
                /\ actionCount' = actionCount
          /\ (/\ last'.arg # <<>>
              /\ 0 <= last'.arg[1] /\ last'.arg[1] <= WAIT_MAX_SECONDS
              /\ ~last'.fault) =>
                /\ last'.res \in Successes
                /\ last'.waited = last'.arg[1] * 1000]_vars

\* ------------------------------------------------------------------- C26
\* C26: building an Observation never raises; when a step of it failed (the
\* PDF fetch, both load-state waits, all ten markPage() attempts, the
\* screenshot, resolving the current page) the Observation it returns has
\* no elements and a markdown that describes the failure.
C26_ObservationNeverRaises ==
    last.op \in {"observe", "summarize"} =>
        /\ last.res # "raised"
        /\ last.fault => (bboxes = <<>> /\ StartsWith(last.md, "Failed"))

\* ------------------------------------------------------------------- C27
\* C27: current_bboxes, against which every tool call resolves its element
\* indexes, is the element list of the most recent Observation built, and
\* is empty when the latest attempt to build one raised or the state was
\* reset: no index resolves to an element of an earlier Observation.
C27_IndexesResolveInLatestObservation == bboxes = obsBoxes

\* an Observation with elements was built, a tool call made the current page
\* unresolvable, and the next attempt to build an Observation raised
C27_Witness ==
    /\ last.op = "observe" /\ last.res = "raised"
    /\ actionCount > 0
    /\ bboxes = <<>>

\* ------------------------------------------------------------------- C28
\* C28: the tool calls of one assistant message are dispatched one at a
\* time: at most one action is in progress against the agent's browser
\* context at any moment.
C28_OneActionAtATime == Cardinality(InProgress) <= 1

\* ------------------------------------------------------------------- C29
\* C29: an unavailable chat backend never stops the agent: no chat call
\* raises out of the run; the announcement of ainvoke, failed or not, leads
\* on to the first prompt; assembling a prompt always leads to the LLM call,
\* without the chat block when the store could not be reached; and
\* post_groupchat returns, an error string when the store could not be
\* reached, and the run goes on to the next prompt.
C29_ChatFailureNeverStopsTheAgent ==
    [][/\ cpc' # "raised"
       /\ (cpc \in {"idle", "intro", "start"} /\ cpc' # cpc) =>
              cpc' \in {"intro", "start", "build"}
       /\ (cpc = "build" /\ cpc' # cpc) =>
              /\ cpc' = "llm"
              /\ ~storeUp => cprompt' = <<>>
       /\ (cpc = "tool" /\ cpc' # cpc) =>
              /\ cpc' = "build"
              /\ ctool' \in {"posted", "error"}
              /\ ~storeUp => ctool' = "error"]_vars

\* the store was lost during the run: post_groupchat returned its error
\* string and the next prompt, without a chat block, reached the LLM call
C29_Witness ==
    /\ cpc = "llm" /\ ~storeUp
    /\ ctool = "error"
    /\ cprompt = <<>>
    /\ cposts[Runner] > 0

C40_CounterNeverNegative == count >= 0

\* every agent that was created was disposed, one of them more than once,
\* and the counter is zero
C40_Witness ==
    /\ count = 0
    /\ \E h \in Handles : hpc[h] = "held" /\ hdisp[h] > 1
    /\ \A h \in Handles : hpc[h] = "held" => hdisp[h] >= 1

\* ------------------------------------------------------------------- C32
\* C32: generate_agent_name never returns a name it returned before, on the
\* petname path and on the fallback path, and the registry of assigned names
\* only grows.
C32_NamesNeverRepeat ==
    [][/\ assignedNames \subseteq assignedNames'
       /\ Len(returnedNames') > Len(returnedNames) =>
              \A i \in 1..Len(returnedNames) :
                  returnedNames[i] # returnedNames'[Len(returnedNames')]]_vars

C34_BlindFailureIsAValue ==
    (bpc = "done" /\ berr # "") =>
        IF bentry = "ainvoke"
        THEN /\ bret.kind = "value"
             /\ StartsWith(bret.value, "Error processing request:")
             /\ Contains(bret.value, berr)
        ELSE /\ bret.kind = "ended"
             /\ Len(byield) = Len(bmsgs)
             /\ \A i \in 1..(Len(bmsgs) - 1) :
                    byield[i] = UpdateChunk(bmsgs[i + 1])
             /\ byield[Len(byield)].key = "error"
             /\ StartsWith(byield[Len(byield)].text, "Streaming error: ")
             /\ Contains(byield[Len(byield)].text, berr)

\* astream yielded two chunks, then the workflow failed
C34_Witness ==
    /\ bpc = "done" /\ berr # "" /\ bentry = "astream"
    /\ Len(byield) = 3
    /\ byield[3].key = "error"

\* ------------------------------------------------------------------- C35
\* C35: _extract_final_answer returns the text of the most recent assistant
\* message whose text is not empty and does not start with 'I need to',
\* whatever comes after it, and 'Task completed.' when there is no such
\* message.
Answers(msgs) ==
    {i \in 1..Len(msgs) :
        /\ msgs[i].role = "ai"
        /\ Strip(msgs[i].content) # ""
        /\ ~StartsWith(Strip(msgs[i].content), "I need to")}
C36_ActiveTabIndexValid ==
    [][(/\ toolCalls' = toolCalls + 1
        /\ \/ last'.op \in {"switch_tab", "open_new_tab", "close_tab"}
           \/ last'.op \in TwoStageOps /\ Len(ctxPages') > Len(ctxPages)
        /\ 0 <= cur /\ cur < Len(ctxPages))
          => (0 <= cur' /\ cur' < Len(ctxPages'))]_vars

\* ------------------------------------------------------------------- C37
\* C37: a close_tab(i) that closes a tab other than the active one leaves
\* the active page the page it was, wherever i lies relative to the active
\* tab.
C37_CloseOtherKeepsActivePage ==
    [][(/\ toolCalls' = toolCalls + 1
        /\ last'.op = "close_tab" /\ last'.res \in Successes
        /\ last'.arg # <<>> /\ last'.arg[1] # cur
        /\ CurrentPageOk(World))
          => /\ CurrentPageOk(World')
             /\ CurrentPage(World') = CurrentPage(World)]_vars

\* C38: after astream of a run completes, the history kept for the agent's
\* next invocation is the one ainvoke keeps for the same run, the messages of
\* the final state: it ends with the final assistant message and contains
\* every tool result.
C38_StreamPersistsFinalState ==
    (gpc = "ended" /\ entry = "astream" /\ outcome = StreamExhausted)
        => /\ persistentMessages = StateAfterRun("ainvoke", currentState, messages)
           /\ persistentMessages[Len(persistentMessages)] = messages[Len(messages)]
           /\ \A i \in 1..Len(messages) :
                  messages[i].role = "tool"
                      => \E j \in 1..Len(persistentMessages) :
                             persistentMessages[j] = messages[i]

\* the run that ends with this step is the second of two no-op turns through
\* ainvoke with the same query and the same answer of the LLM
SecondNoOpTurn ==
    LET n == Len(persistentMessages)
    IN  /\ gpc = "agent" /\ gpc' = "ended"
        /\ entry = "ainvoke" /\ llmCalls = 0
        /\ invocations >= 2
        /\ outcome.kind = "returned" /\ outcome'.kind = "returned"
        /\ n >= 2 /\ runStart = n /\ Len(messages') = n + 2
        /\ persistentMessages[n - 1] = messages'[n + 1]
        /\ persistentMessages[n] = messages'[n + 2]
        /\ ~HasToolCalls(persistentMessages[n])

\* C31: a no-op turn is idempotent: the second of two invocations with an LLM
\* that answers with text and no tool calls returns the same final answer as
\* the first and has no side effect: the persisted history, the action count,
\* the pages and the chat log are what they were before it.
C31_NoOpTurnIdempotent ==
    [][SecondNoOpTurn
         => /\ outcome'.value = outcome.value
            /\ persistentMessages' = persistentMessages
            /\ actionCount' = actionCount
            /\ ctxPages' = ctxPages /\ pageVer' = pageVer
            /\ room' = room]_vars

\* the part of C31 the code keeps: the same final answer both times
SecondNoOpTurnSameAnswer ==
    [][SecondNoOpTurn => outcome'.value = outcome.value]_vars


\* C39: within one click, type_text or browser_select_option call the
\* interaction is delivered to the page at most once, also when the native
\* attempt returns without error and leaves the page state unchanged.
C39_DeliveredAtMostOnce ==
    last.op \in TwoStageOps => last.delivered <= 1

====
